---- MODULE Spec2Model ----
(***************************************************************************)
(* Model of the malan genealogy sampler, the pedigree flood-fill and the   *)
(* meiotic-distance query.                                                 *)
(*                                                                         *)
(* Individuals are identified by their pid; 0 stands for nullptr.          *)
(* Random draws are inputs: a uniform draw is the numerator of a fraction  *)
(* whose denominator is stated where it is used.                           *)
(***************************************************************************)
EXTENDS Integers, Sequences, FiniteSets, TLC

VARIABLES
  pc,                   \* position of the R session: which call is running / has ended
  fn,                   \* the sampler that was called
  population_size,      \* argument of the sampler
  generations,          \* argument of the sampler
  population_map,       \* pid -> Individual (the Population)
  individual_id,        \* next pid to hand out
  children_generation,  \* slot -> pid or NULL
  founders_left,
  generation,           \* the sampler's loop counter
  last_k,               \* last_k_generations_individuals (variance sampler)
  res,                  \* the List the sampler returned, or NoResult
  pedigrees,            \* the Pedigree objects created by build_pedigrees, in creation order
  pedigree_size,        \* the size counter build_pedigrees kept for each Pedigree
  pedigrees_handle,     \* TRUE once build_pedigrees has returned its list
  check_abort,          \* the latest answer of the cancellation probe
  last,                 \* the latest query call and its outcome
  verbose,              \* verbose_result and the tables kept for it
  twin                  \* a second run of the same sampler call, or NoTwin

vars == <<pc, fn, population_size, generations, population_map, individual_id,
          children_generation, founders_left, generation, last_k, res,
          pedigrees, pedigree_size, pedigrees_handle, check_abort, last, verbose, twin>>

sampler_vars == <<fn, population_size, generations, individual_id,
                  children_generation, founders_left, generation, last_k, res, verbose>>

pedigree_vars == <<pedigrees, pedigree_size, pedigrees_handle>>

\* ---------------------------------------------------------------- bounds
MaxM == 2        \* largest population_size tried
MaxG == 3        \* largest generations tried; also caps the rounds of the sentinel mode
MaxLoci == 2     \* longest haplotype and longest vector of mutation rates tried
MaxAlleles == 3  \* longest allele distribution tried
MaxDen == 10     \* largest common denominator of the probabilities and of theta tried
MaxN == 4        \* largest number of genotypes given to the theta estimator

\* ------------------------------------------------------------- constants
NULL == 0
individuals_generations_return == 2

NoResult == [kind |-> "none"]
NoCall == [kind |-> "none"]
NoTwin == [kind |-> "none"]

\* ----------------------------------------------------------- Individual
\* The member initialisers (null father, pedigree id 0, cleared scratch) and
\* set_father are declared in the class header; the Pedigree class and
\* build_pedigrees are defined outside the files modelled here. Those parts
\* follow the design document: set_father stores the pointer, add_member appends
\* and records a fatherless member as root, add_relation appends the pair, and
\* build_pedigrees starts set_pedigree_id with a fresh id from every Individual
\* that is still unassigned, polling the cancellation probe between pedigrees.
Individual(pid, gen) ==
  [pid |-> pid, generation |-> gen, father |-> NULL, children |-> <<>>,
   pedigree_id |-> 0, pedigree |-> NULL,
   dijkstra_visited |-> FALSE, dijkstra_distance |-> 0,
   m_haplotype |-> <<>>, m_haplotype_set |-> FALSE, m_haplotype_mutated |-> FALSE]

set_father(pop, child, f) == [pop EXCEPT ![child].father = f]

add_child_NoPush(pop, this, child) == [pop EXCEPT ![child].father = this]

add_child(pop, this, child) ==
  [pop EXCEPT ![this].children = Append(@, child), ![child].father = this]

pedigree_is_set(pop, this) == pop[this].pedigree_id # 0

\* ------------------------------------------------------------- Pedigree
Pedigree(id) == [id |-> id, all_individuals |-> <<>>, relations |-> <<>>, root |-> NULL]

\* appends the member; a member without father becomes the root
add_member(ped, pop, i) ==
  [ped EXCEPT !.all_individuals = Append(@, i),
              !.root = IF pop[i].father = NULL THEN i ELSE @]

add_relation(ped, lhs, rhs) == [ped EXCEPT !.relations = Append(@, <<lhs, rhs>>)]

\* the flood-fill; st = [pop, ped, pedigree_size]
RECURSIVE set_pedigree_id(_, _, _)
RECURSIVE set_pedigree_id_children(_, _, _, _)

set_pedigree_id_NoFather(this, id, st) ==
  IF pedigree_is_set(st.pop, this) THEN st
  ELSE
    LET s1 == [pop |-> [st.pop EXCEPT ![this].pedigree = id, ![this].pedigree_id = id],
               ped |-> add_member(st.ped, st.pop, this),
               pedigree_size |-> st.pedigree_size + 1]
    IN set_pedigree_id_children(this, id, 1, s1)

set_pedigree_id_RelationAfterGuard(this, id, st) ==
  IF pedigree_is_set(st.pop, this) THEN st
  ELSE
    LET s1 == [pop |-> [st.pop EXCEPT ![this].pedigree = id, ![this].pedigree_id = id],
               ped |-> IF st.pop[this].father = NULL
                       THEN add_member(st.ped, st.pop, this)
                       ELSE add_relation(add_member(st.ped, st.pop, this),
                                         st.pop[this].father, this),
               pedigree_size |-> st.pedigree_size + 1]
        m_father == st.pop[this].father
        s2 == IF m_father # NULL THEN set_pedigree_id(m_father, id, s1) ELSE s1
    IN set_pedigree_id_children(this, id, 1, s2)

set_pedigree_id_GuardSameId(this, id, st) ==
  IF st.pop[this].pedigree_id = id THEN st
  ELSE
    LET s1 == [pop |-> [st.pop EXCEPT ![this].pedigree = id, ![this].pedigree_id = id],
               ped |-> add_member(st.ped, st.pop, this),
               pedigree_size |-> st.pedigree_size + 1]
        m_father == st.pop[this].father
        s2 == IF m_father # NULL THEN set_pedigree_id(m_father, id, s1) ELSE s1
    IN set_pedigree_id_children(this, id, 1, s2)

set_pedigree_id(this, id, st) ==
  IF pedigree_is_set(st.pop, this) THEN st
  ELSE
    LET s1 == [pop |-> [st.pop EXCEPT ![this].pedigree = id, ![this].pedigree_id = id],
               ped |-> add_member(st.ped, st.pop, this),
               pedigree_size |-> st.pedigree_size + 1]
        m_father == st.pop[this].father
        s2 == IF m_father # NULL THEN set_pedigree_id(m_father, id, s1) ELSE s1
    IN set_pedigree_id_children(this, id, 1, s2)

\* the loop over m_children of set_pedigree_id, from the k-th child on
set_pedigree_id_children(this, id, k, st) ==
  IF k > Len(st.pop[this].children) THEN st
  ELSE LET child == st.pop[this].children[k]
           s1 == [st EXCEPT !.ped = add_relation(st.ped, this, child)]
       IN set_pedigree_id_children(this, id, k + 1, set_pedigree_id(child, id, s1))

\* ------------------------------------------------------- meiotic distance
dijkstra_reset_VisitedOnly(pop, i) == [pop EXCEPT ![i].dijkstra_visited = FALSE]

dijkstra_reset(pop, i) ==
  [pop EXCEPT ![i].dijkstra_visited = FALSE, ![i].dijkstra_distance = 0]

dijkstra_tick_distance(pop, i, step) ==
  [pop EXCEPT ![i].dijkstra_distance = @ + step]

dijkstra_mark_visited(pop, i) == [pop EXCEPT ![i].dijkstra_visited = TRUE]

\* st = [pop, dist]
RECURSIVE meiosis_dist_tree_internal(_, _, _)
RECURSIVE meiosis_dist_tree_internal_children(_, _, _, _, _)

meiosis_dist_tree_internal_NoFather(this, dest, st) ==
  IF this = dest THEN [st EXCEPT !.dist = st.pop[dest].dijkstra_distance]
  ELSE IF st.pop[dest].dijkstra_visited THEN st
  ELSE
    LET pop1 == dijkstra_tick_distance(dijkstra_mark_visited(st.pop, dest), dest, 1)
        m == pop1[dest].dijkstra_distance
    IN meiosis_dist_tree_internal_children(this, dest, 1, m, [st EXCEPT !.pop = pop1])

meiosis_dist_tree_internal(this, dest, st) ==
  IF this = dest THEN [st EXCEPT !.dist = st.pop[dest].dijkstra_distance]
  ELSE IF st.pop[dest].dijkstra_visited THEN st
  ELSE
    LET pop1 == dijkstra_tick_distance(dijkstra_mark_visited(st.pop, dest), dest, 1)
        m == pop1[dest].dijkstra_distance
        father == pop1[dest].father
        s2 == IF father # NULL
              THEN meiosis_dist_tree_internal(this, father,
                     [st EXCEPT !.pop = dijkstra_tick_distance(pop1, father, m)])
              ELSE [st EXCEPT !.pop = pop1]
    IN meiosis_dist_tree_internal_children(this, dest, 1, m, s2)

\* the loop over dest's children of meiosis_dist_tree_internal, from the k-th child on
meiosis_dist_tree_internal_children(this, dest, k, m, st) ==
  IF k > Len(st.pop[dest].children) THEN st
  ELSE LET child == st.pop[dest].children[k]
           s1 == [st EXCEPT !.pop = dijkstra_tick_distance(st.pop, child, m)]
       IN meiosis_dist_tree_internal_children(this, dest, k + 1, m,
            meiosis_dist_tree_internal(this, child, s1))

\* the reset loop over the pedigree's members
RECURSIVE ResetAll(_, _, _)
ResetAll(pop, inds, k) ==
  IF k > Len(inds) THEN pop ELSE ResetAll(dijkstra_reset(pop, inds[k]), inds, k + 1)

\* [outcome, value, pop]: outcome is "error" (an exception, with its message) or "value"
meiosis_dist_tree_ResetFirst(peds, pop, this, dest) ==
  LET popr == ResetAll(pop, [i \in 1..Cardinality(DOMAIN pop) |-> i], 1)
  IN
  IF ~pedigree_is_set(pop, this)
  THEN [outcome |-> "error", what |-> "!(this->pedigree_is_set())", value |-> 0, pop |-> popr]
  ELSE IF dest = NULL
  THEN [outcome |-> "error", what |-> "dest is NULL", value |-> 0, pop |-> popr]
  ELSE IF ~pedigree_is_set(pop, dest)
  THEN [outcome |-> "error", what |-> "!(dest->pedigree_is_set())", value |-> 0, pop |-> popr]
  ELSE IF pop[this].pedigree_id # pop[dest].pedigree_id
  THEN [outcome |-> "value", what |-> "", value |-> -1, pop |-> popr]
  ELSE
    LET st == meiosis_dist_tree_internal(this, dest, [pop |-> popr, dist |-> 0])
    IN [outcome |-> "value", what |-> "", value |-> st.dist, pop |-> st.pop]

meiosis_dist_tree(peds, pop, this, dest) ==
  IF ~pedigree_is_set(pop, this)
  THEN [outcome |-> "error", what |-> "!(this->pedigree_is_set())", value |-> 0, pop |-> pop]
  ELSE IF dest = NULL
  THEN [outcome |-> "error", what |-> "dest is NULL", value |-> 0, pop |-> pop]
  ELSE IF ~pedigree_is_set(pop, dest)
  THEN [outcome |-> "error", what |-> "!(dest->pedigree_is_set())", value |-> 0, pop |-> pop]
  ELSE IF pop[this].pedigree_id # pop[dest].pedigree_id
  THEN [outcome |-> "value", what |-> "", value |-> -1, pop |-> pop]
  ELSE
    LET inds == peds[pop[this].pedigree].all_individuals
        st == meiosis_dist_tree_internal(this, dest,
                [pop |-> ResetAll(pop, inds, 1), dist |-> 0])
    IN [outcome |-> "value", what |-> "", value |-> st.dist, pop |-> st.pop]

\* ------------------------------------------------------------- sampling
\* R::runif(0,1) * population_size truncated to int; the draw is num/(2*population_size)
sample_person(M, num) == (num * M) \div (2 * M)

\* the draws tried for sample_person: the midpoints (2k+1)/(2M), k = 0..M-1
UnifDraws(M) == {2 * k + 1 : k \in 0..(M - 1)}

\* descending sort_index of a weight vector without ties (slots are 0-based, held at index slot+1)
RECURSIVE SortIndexDescend(_, _)
SortIndexDescend(w, left) ==
  IF left = {} THEN <<>>
  ELSE LET best == CHOOSE s \in left : \A t \in left : w[t + 1] <= w[s + 1]
       IN <<best>> \o SortIndexDescend(w, left \ {best})

RECURSIVE CumSum(_, _)
CumSum(w, n) == IF n = 0 THEN <<>>
                ELSE LET c == CumSum(w, n - 1)
                     IN Append(c, (IF n = 1 THEN 0 ELSE c[n - 1]) + w[n])

RECURSIVE ScanCum_Strict(_, _, _, _)
ScanCum_Strict(jj, population_size_1, rU, fathers_prob_cum) ==
  IF jj < population_size_1 /\ ~(rU < fathers_prob_cum[jj + 1])
  THEN ScanCum_Strict(jj + 1, population_size_1, rU, fathers_prob_cum)
  ELSE jj

\* the linear scan of sample_person_weighted; rU and fathers_prob_cum share one denominator
RECURSIVE ScanCum(_, _, _, _)
ScanCum(jj, population_size_1, rU, fathers_prob_cum) ==
  IF jj < population_size_1 /\ ~(rU <= fathers_prob_cum[jj + 1])
  THEN ScanCum(jj + 1, population_size_1, rU, fathers_prob_cum)
  ELSE jj

sample_person_weighted(M, fathers_prob_cum, fathers_perm, rU) ==
  fathers_perm[ScanCum(0, M - 1, rU, fathers_prob_cum) + 1]

\* the inputs tried for sample_person_weighted alone: up to MaxSlots slots, and
\* cumulative probabilities and draws in units of 1/MaxCum
MaxSlots == 3
MaxCum == 4

\* the orders sort_index can give to the slots 0..M-1
SlotPermutations(M) ==
  {pi \in [1..M -> 0..(M - 1)] : \A i \in 1..M : \A j \in 1..M : pi[i] = pi[j] => i = j}

\* the vectors cumsum can give for sorted probabilities that sum to one
CumulativeVectors(M) ==
  {c \in [1..M -> 0..MaxCum] :
     /\ c[M] = MaxCum
     /\ \A j \in 1..(M - 1) : c[j] <= c[j + 1]}

\* one call of sample_person_weighted; rU is what unif_rand() gives, below one
sample_person_weighted_call ==
  /\ pc = "idle"
  /\ last = NoCall
  /\ \E M \in 1..MaxSlots :
       \E fathers_perm \in SlotPermutations(M), fathers_prob_cum \in CumulativeVectors(M),
          rU \in 0..(MaxCum - 1) :
         last' = [kind |-> "sample_person_weighted", population_size |-> M,
                  fathers_prob_cum |-> fathers_prob_cum, fathers_perm |-> fathers_perm,
                  rU |-> rU,
                  value |-> sample_person_weighted(M, fathers_prob_cum, fathers_perm, rU)]
  /\ UNCHANGED <<pc, population_map, sampler_vars, pedigree_vars, check_abort, twin>>

\* the gamma draws tried: 1,2,..,M and M,..,2,1 (before normalisation)
GammaDraws(M) == {[i \in 1..M |-> i], [i \in 1..M |-> M + 1 - i]}

\* fathers_prob after sort and cumsum, in units of 1/(2*sum(w))
FathersProbCum(w, M) ==
  LET perm == SortIndexDescend(w, 0..(M - 1))
      sorted == [j \in 1..M |-> 2 * w[perm[j] + 1]]
  IN CumSum(sorted, M)

\* the uniform draws tried for the weighted scan: one inside each step of the cumulative vector
WeightedDraws(cum) == {cum[j] - 1 : j \in 1..Len(cum)}

RECURSIVE PickFathers_CountEveryChild(_, _, _, _, _, _)
PickFathers_CountEveryChild(i, M, gen, kids, father_i, st) ==
  IF i >= M THEN st
  ELSE IF kids[i + 1] = NULL THEN PickFathers_CountEveryChild(i + 1, M, gen, kids, father_i, st)
  ELSE
    LET fi == father_i[i]
        isnew == st.fathers_generation[fi + 1] = NULL
        father == IF isnew THEN st.individual_id ELSE st.fathers_generation[fi + 1]
        pop1 == IF isnew
                THEN [p \in (DOMAIN st.pop) \cup {father} |->
                        IF p = father THEN Individual(father, gen) ELSE st.pop[p]]
                ELSE st.pop
        pop2 == set_father(pop1, kids[i + 1], father)
        pop3 == add_child(pop2, father, kids[i + 1])
        st1 == [pop |-> pop3,
                fathers_generation |->
                  [st.fathers_generation EXCEPT ![fi + 1] = father],
                individual_id |-> IF isnew THEN st.individual_id + 1 ELSE st.individual_id,
                new_founders_left |-> st.new_founders_left + 1,
                last_k |-> IF isnew /\ fn = "sample_geneology_variance"
                              /\ gen <= individuals_generations_return
                           THEN Append(st.last_k, father) ELSE st.last_k]
    IN PickFathers_CountEveryChild(i + 1, M, gen, kids, father_i, st1)

\* one pass of the father-picking loop, slots i..M-1; father_i[i] is the slot drawn for child i
\* st = [pop, fathers_generation, individual_id, new_founders_left, last_k]
RECURSIVE PickFathers(_, _, _, _, _, _)
PickFathers(i, M, gen, kids, father_i, st) ==
  IF i >= M THEN st
  ELSE IF kids[i + 1] = NULL THEN PickFathers(i + 1, M, gen, kids, father_i, st)
  ELSE
    LET fi == father_i[i]
        isnew == st.fathers_generation[fi + 1] = NULL
        father == IF isnew THEN st.individual_id ELSE st.fathers_generation[fi + 1]
        pop1 == IF isnew
                THEN [p \in (DOMAIN st.pop) \cup {father} |->
                        IF p = father THEN Individual(father, gen) ELSE st.pop[p]]
                ELSE st.pop
        pop2 == set_father(pop1, kids[i + 1], father)
        pop3 == add_child(pop2, father, kids[i + 1])
        st1 == [pop |-> pop3,
                fathers_generation |->
                  [st.fathers_generation EXCEPT ![fi + 1] = father],
                individual_id |-> IF isnew THEN st.individual_id + 1 ELSE st.individual_id,
                new_founders_left |->
                  IF isnew THEN st.new_founders_left + 1 ELSE st.new_founders_left,
                last_k |-> IF isnew /\ fn = "sample_geneology_variance"
                              /\ gen <= individuals_generations_return
                           THEN Append(st.last_k, father) ELSE st.last_k]
    IN PickFathers(i + 1, M, gen, kids, father_i, st1)

ArgumentsValid_AcceptsOne(M, G) == ~(M < 1) /\ ~(G < -1 \/ G = 0)

\* the validation at the head of both samplers
ArgumentsValid(M, G) == ~(M <= 1) /\ ~(G < -1 \/ G = 0)

LoopCondition_Inclusive(G, gen, founders) ==
  LET simulate_fixed_number_generations == (G # -1)
  IN \/ (simulate_fixed_number_generations /\ gen <= G)
     \/ (~simulate_fixed_number_generations /\ founders > 1)

LoopCondition_AtLeastOne(G, gen, founders) ==
  LET simulate_fixed_number_generations == (G # -1)
  IN \/ (simulate_fixed_number_generations /\ gen < G)
     \/ (~simulate_fixed_number_generations /\ founders >= 1)

\* the condition of the samplers' while loop
LoopCondition(G, gen, founders) ==
  LET simulate_fixed_number_generations == (G # -1)
  IN \/ (simulate_fixed_number_generations /\ gen < G)
     \/ (~simulate_fixed_number_generations /\ founders > 1)

\* the List a sampler returns
Result(f, gen, founders, M, kept) ==
  [kind |-> "list", population |-> TRUE, generations |-> gen, founders |-> founders,
   end_generation_individuals |-> [i \in 1..M |-> i],
   individuals_generations |-> IF f = "sample_geneology_variance" THEN kept ELSE <<>>]

\* generation 0: M fresh Individuals with pids 1..M
Generation0(M) == [p \in 1..M |-> Individual(p, 0)]

\* the missing value of the verbose tables: an integer that is no pid and no slot
NA_INTEGER == -1

NAColumn(M) == [i \in 1..M |-> NA_INTEGER]

\* no tables are kept when verbose_result is false
VerboseOff == [on |-> FALSE, individual_pids |-> <<>>, father_pids |-> <<>>,
               father_indices |-> <<>>, individual_pids_tmp |-> <<>>,
               father_pids_tmp |-> <<>>, father_indices_tmp |-> <<>>]

\* the tables at the head of the while loop; a matrix is the sequence of its columns.
\* With a fixed number of generations the three matrices are M x G and filled with
\* NA_INTEGER, column 0 of individual_pids holds the pids of generation 0; in
\* sentinel mode that column is the first one pushed to individual_pids_tmp
VerboseInit(verbose_result, M, G) ==
  LET simulate_fixed_number_generations == (G # -1)
  IN IF ~verbose_result THEN VerboseOff
     ELSE IF simulate_fixed_number_generations
     THEN [VerboseOff EXCEPT
             !.on = TRUE,
             !.individual_pids = [g \in 1..G |-> IF g = 1 THEN [i \in 1..M |-> i]
                                                  ELSE NAColumn(M)],
             !.father_pids = [g \in 1..G |-> NAColumn(M)],
             !.father_indices = [g \in 1..G |-> NAColumn(M)]]
     ELSE [VerboseOff EXCEPT !.on = TRUE, !.individual_pids_tmp = <<[i \in 1..M |-> i]>>]

\* the tables after one turn of the while loop: kids is children_generation at the
\* head of the turn, father_i[i] the slot drawn for child i, fathers_generation the
\* fathers the turn has created
VerboseStep(v, M, G, gen, kids, father_i, fathers_generation) ==
  LET simulate_fixed_number_generations == (G # -1)
      individual_pids_tmp_vec ==
        [s \in 1..M |-> IF fathers_generation[s] = NULL THEN NA_INTEGER
                         ELSE fathers_generation[s]]
      father_pids_tmp_vec ==
        [i \in 1..M |-> IF kids[i] = NULL THEN NA_INTEGER
                         ELSE fathers_generation[father_i[i - 1] + 1]]
      father_indices_tmp_vec ==
        [i \in 1..M |-> IF kids[i] = NULL THEN NA_INTEGER ELSE father_i[i - 1] + 1]
  IN IF ~v.on THEN v
     ELSE IF simulate_fixed_number_generations
     THEN [v EXCEPT !.individual_pids[gen + 1] = individual_pids_tmp_vec,
                    !.father_pids[gen] = father_pids_tmp_vec,
                    !.father_indices[gen] = father_indices_tmp_vec]
     ELSE [v EXCEPT !.individual_pids_tmp = Append(@, individual_pids_tmp_vec),
                    !.father_pids_tmp = Append(@, father_pids_tmp_vec),
                    !.father_indices_tmp = Append(@, father_indices_tmp_vec)]

VerboseFinish_NoLastColumn(v, M, G, gen) ==
  LET simulate_fixed_number_generations == (G # -1)
      Matrix(tmp) == [g \in 1..gen |-> tmp[g]]
  IN IF ~v.on \/ simulate_fixed_number_generations THEN v
     ELSE [v EXCEPT !.individual_pids = Matrix(v.individual_pids_tmp),
                    !.father_pids = Matrix(Append(v.father_pids_tmp, v.individual_pids_tmp[1])),
                    !.father_indices =
                      Matrix(Append(v.father_indices_tmp, v.individual_pids_tmp[1]))]

\* the tables after the while loop: in sentinel mode a last column of NA_INTEGER is
\* pushed to the two father tables and the three matrices are filled from the
\* pushed columns
VerboseFinish(v, M, G, gen) ==
  LET simulate_fixed_number_generations == (G # -1)
      father_pids_tmp == Append(v.father_pids_tmp, NAColumn(M))
      father_indices_tmp == Append(v.father_indices_tmp, NAColumn(M))
      generations_final == gen
      Matrix(tmp) == [g \in 1..generations_final |->
                        IF g <= Len(v.individual_pids_tmp) THEN tmp[g] ELSE NAColumn(M)]
  IN IF ~v.on \/ simulate_fixed_number_generations THEN v
     ELSE [v EXCEPT !.father_pids_tmp = father_pids_tmp,
                    !.father_indices_tmp = father_indices_tmp,
                    !.individual_pids = Matrix(v.individual_pids_tmp),
                    !.father_pids = Matrix(father_pids_tmp),
                    !.father_indices = Matrix(father_indices_tmp)]

\* entry of a sampler up to the head of its while loop
SamplerEntry(f, M, G, verbose_result) ==
  /\ pc = "idle"
  /\ fn' = f
  /\ population_size' = M
  /\ generations' = G
  /\ IF ArgumentsValid(M, G)
     THEN /\ pc' = "loop"
          /\ population_map' = Generation0(M)
          /\ individual_id' = M + 1
          /\ children_generation' = [i \in 1..M |-> i]
          /\ founders_left' = M
          /\ generation' = 1
          /\ last_k' = IF f = "sample_geneology_variance" /\ individuals_generations_return >= 0
                       THEN [i \in 1..M |-> i] ELSE <<>>
          /\ verbose' = VerboseInit(verbose_result, M, G)
     ELSE /\ pc' = "failed"
          /\ UNCHANGED <<population_map, individual_id, children_generation,
                         founders_left, generation, last_k, verbose>>
  /\ UNCHANGED <<res, pedigree_vars, check_abort, last>>

\* a sampler called with verbose_result = false
SamplerCall(f, M, G) == SamplerEntry(f, M, G, FALSE) /\ UNCHANGED twin

Call_sample_geneology ==
  \E M \in 0..MaxM, G \in (-2)..MaxG : SamplerCall("sample_geneology", M, G)

Call_sample_geneology_variance ==
  \E M \in 0..MaxM, G \in (-2)..MaxG : SamplerCall("sample_geneology_variance", M, G)

Call_sample_geneology_verbose ==
  \E M \in 0..MaxM, G \in (-2)..MaxG :
    SamplerEntry("sample_geneology", M, G, TRUE) /\ UNCHANGED twin

Call_sample_geneology_variance_verbose ==
  \E M \in 0..MaxM, G \in (-2)..MaxG :
    SamplerEntry("sample_geneology_variance", M, G, TRUE) /\ UNCHANGED twin

GenerationStep_AbortIgnored(father_i, abort) ==
  LET M == population_size
      st == PickFathers(0, M, generation, children_generation, father_i,
              [pop |-> population_map,
               fathers_generation |-> [i \in 1..M |-> NULL],
               individual_id |-> individual_id,
               new_founders_left |-> 0,
               last_k |-> last_k])
  IN /\ population_map' = st.pop
     /\ individual_id' = st.individual_id
     /\ children_generation' = st.fathers_generation
     /\ last_k' = st.last_k
     /\ verbose' = VerboseStep(verbose, M, generations, generation, children_generation,
                               father_i, st.fathers_generation)
     /\ check_abort' = abort
     /\ pc' = "loop"
     /\ founders_left' = st.new_founders_left
     /\ generation' = generation + 1
     /\ UNCHANGED <<fn, population_size, generations, res, pedigree_vars, last>>

\* one turn of the while loop with the fathers drawn, then the cancellation probe
GenerationStep(father_i, abort) ==
  LET M == population_size
      st == PickFathers(0, M, generation, children_generation, father_i,
              [pop |-> population_map,
               fathers_generation |-> [i \in 1..M |-> NULL],
               individual_id |-> individual_id,
               new_founders_left |-> 0,
               last_k |-> last_k])
  IN /\ population_map' = st.pop
     /\ individual_id' = st.individual_id
     /\ children_generation' = st.fathers_generation
     /\ last_k' = st.last_k
     /\ verbose' = VerboseStep(verbose, M, generations, generation, children_generation,
                               father_i, st.fathers_generation)
     /\ check_abort' = abort
     /\ IF abort
        THEN /\ pc' = "aborted"
             /\ UNCHANGED <<founders_left, generation>>
        ELSE /\ pc' = "loop"
             /\ founders_left' = st.new_founders_left
             /\ generation' = generation + 1
     /\ UNCHANGED <<fn, population_size, generations, res, pedigree_vars, last>>

Step_sample_geneology ==
  /\ pc = "loop"
  /\ fn = "sample_geneology"
  /\ generation < MaxG
  /\ LoopCondition(generations, generation, founders_left)
  /\ \E draws \in [0..(population_size - 1) -> UnifDraws(population_size)], abort \in BOOLEAN :
       GenerationStep([i \in 0..(population_size - 1) |->
                         sample_person(population_size, draws[i])], abort)
  /\ UNCHANGED twin

Step_sample_geneology_variance ==
  /\ pc = "loop"
  /\ fn = "sample_geneology_variance"
  /\ generation < MaxG
  /\ LoopCondition(generations, generation, founders_left)
  /\ \E w \in GammaDraws(population_size) :
       LET fathers_prob_perm == SortIndexDescend(w, 0..(population_size - 1))
           fathers_prob == FathersProbCum(w, population_size)
       IN \E draws \in [0..(population_size - 1) -> WeightedDraws(fathers_prob)],
             abort \in BOOLEAN :
            GenerationStep([i \in 0..(population_size - 1) |->
                              sample_person_weighted(population_size, fathers_prob,
                                                     fathers_prob_perm, draws[i])], abort)
  /\ UNCHANGED twin

\* leaving the while loop: the result List is built and returned
SamplerExit ==
  /\ pc = "loop"
  /\ ~LoopCondition(generations, generation, founders_left)
  /\ pc' = "returned"
  /\ res' = Result(fn, generation, founders_left, population_size, last_k)
  /\ children_generation' = <<>>
  /\ verbose' = VerboseFinish(verbose, population_size, generations, generation)
  /\ UNCHANGED <<fn, population_size, generations, population_map, individual_id,
                 founders_left, generation, last_k, pedigree_vars, check_abort, last>>

SamplerReturn == SamplerExit /\ UNCHANGED twin

\* --------------------------------------------------------- build_pedigrees
Unassigned == {i \in DOMAIN population_map : ~pedigree_is_set(population_map, i)}

\* one turn of build_pedigrees' loop over the Population that meets an unassigned Individual
\* (turns that meet an assigned one change nothing), then the cancellation probe
build_pedigrees_step(i, abort) ==
  /\ pc \in {"returned", "building"}
  /\ i \in Unassigned
  /\ LET pedigree_id == Len(pedigrees) + 1
         st == set_pedigree_id(i, pedigree_id,
                 [pop |-> population_map, ped |-> Pedigree(pedigree_id), pedigree_size |-> 0])
         done == \A j \in DOMAIN st.pop : pedigree_is_set(st.pop, j)
     IN /\ population_map' = st.pop
        /\ pedigrees' = Append(pedigrees, st.ped)
        /\ pedigree_size' = Append(pedigree_size, st.pedigree_size)
        /\ pc' = IF abort THEN "build_aborted" ELSE IF done THEN "built" ELSE "building"
        /\ pedigrees_handle' = (~abort /\ done)
        /\ check_abort' = abort
  /\ last' = NoCall
  /\ UNCHANGED <<sampler_vars, twin>>

build_pedigrees == \E i \in DOMAIN population_map, abort \in BOOLEAN : build_pedigrees_step(i, abort)

\* ------------------------------------------------- a second run of a sampler
\* The second run of a call keeps its own copy of the sampler's state in twin and
\* is moved by the same operators, with the same arguments and the same draws.
TwinEntry(f, M, G, verbose_result) ==
  IF ArgumentsValid(M, G)
  THEN [kind |-> "run", pc |-> "loop",
        population_map |-> Generation0(M),
        individual_id |-> M + 1,
        children_generation |-> [i \in 1..M |-> i],
        founders_left |-> M,
        generation |-> 1,
        last_k |-> IF f = "sample_geneology_variance" /\ individuals_generations_return >= 0
                   THEN [i \in 1..M |-> i] ELSE <<>>,
        verbose |-> VerboseInit(verbose_result, M, G),
        res |-> res, pedigrees |-> <<>>]
  ELSE [kind |-> "run", pc |-> "failed",
        population_map |-> population_map,
        individual_id |-> individual_id,
        children_generation |-> children_generation,
        founders_left |-> founders_left,
        generation |-> generation,
        last_k |-> last_k,
        verbose |-> verbose,
        res |-> res, pedigrees |-> <<>>]

TwinGeneration(t, M, G, father_i) ==
  LET st == PickFathers(0, M, t.generation, t.children_generation, father_i,
              [pop |-> t.population_map,
               fathers_generation |-> [i \in 1..M |-> NULL],
               individual_id |-> t.individual_id,
               new_founders_left |-> 0,
               last_k |-> t.last_k])
  IN [t EXCEPT !.population_map = st.pop,
               !.individual_id = st.individual_id,
               !.children_generation = st.fathers_generation,
               !.last_k = st.last_k,
               !.verbose = VerboseStep(t.verbose, M, G, t.generation, t.children_generation,
                                       father_i, st.fathers_generation),
               !.founders_left = st.new_founders_left,
               !.generation = t.generation + 1]

TwinExit(t, f, M, G) ==
  [t EXCEPT !.pc = "returned",
            !.res = Result(f, t.generation, t.founders_left, M, t.last_k),
            !.children_generation = <<>>,
            !.verbose = VerboseFinish(t.verbose, M, G, t.generation)]

\* one turn of build_pedigrees' loop in the second run, started from Individual j
TwinBuild(t, j) ==
  LET pedigree_id == Len(t.pedigrees) + 1
      st == set_pedigree_id(j, pedigree_id,
              [pop |-> t.population_map, ped |-> Pedigree(pedigree_id), pedigree_size |-> 0])
      done == \A k \in DOMAIN st.pop : pedigree_is_set(st.pop, k)
  IN [t EXCEPT !.population_map = st.pop,
               !.pedigrees = Append(t.pedigrees, st.ped),
               !.pc = IF done THEN "built" ELSE "building"]

\* both runs enter the same sampler with the same arguments
Twin_call ==
  \E f \in {"sample_geneology", "sample_geneology_variance"},
     M \in 0..MaxM, G \in (-2)..MaxG, verbose_result \in BOOLEAN :
    /\ SamplerEntry(f, M, G, verbose_result)
    /\ twin' = TwinEntry(f, M, G, verbose_result)

\* both runs take one turn of sample_geneology's loop with the same uniform draws
Twin_step_sample_geneology ==
  /\ pc = "loop"
  /\ fn = "sample_geneology"
  /\ generation < MaxG
  /\ LoopCondition(generations, generation, founders_left)
  /\ \E draws \in [0..(population_size - 1) -> UnifDraws(population_size)] :
       LET father_i == [i \in 0..(population_size - 1) |->
                          sample_person(population_size, draws[i])]
       IN /\ GenerationStep(father_i, FALSE)
          /\ twin' = TwinGeneration(twin, population_size, generations, father_i)

\* both runs take one turn of sample_geneology_variance's loop with the same draws
Twin_step_sample_geneology_variance ==
  /\ pc = "loop"
  /\ fn = "sample_geneology_variance"
  /\ generation < MaxG
  /\ LoopCondition(generations, generation, founders_left)
  /\ \E w \in GammaDraws(population_size) :
       LET fathers_prob_perm == SortIndexDescend(w, 0..(population_size - 1))
           fathers_prob == FathersProbCum(w, population_size)
       IN \E draws \in [0..(population_size - 1) -> WeightedDraws(fathers_prob)] :
            LET father_i == [i \in 0..(population_size - 1) |->
                               sample_person_weighted(population_size, fathers_prob,
                                                      fathers_prob_perm, draws[i])]
            IN /\ GenerationStep(father_i, FALSE)
               /\ twin' = TwinGeneration(twin, population_size, generations, father_i)

Twin_return ==
  /\ SamplerExit
  /\ twin' = TwinExit(twin, fn, population_size, generations)

\* build_pedigrees of the second run visits the Population in an order of its own
Twin_build_pedigrees ==
  /\ twin # NoTwin
  /\ twin.pc \in {"returned", "building"}
  /\ \E j \in DOMAIN twin.population_map :
       /\ ~pedigree_is_set(twin.population_map, j)
       /\ twin' = TwinBuild(twin, j)
  /\ UNCHANGED <<pc, population_map, sampler_vars, pedigree_vars, check_abort, last>>

\* one turn of the loop of a second build_pedigrees run, on a Population that the
\* first run has assigned completely: set_pedigree_id is started from Individual i
\* with the run's next id, a new empty Pedigree and a size counter of 0
build_pedigrees_again_step(i) ==
  /\ pc = "built"
  /\ pedigree_is_set(population_map, i)
  /\ LET pedigree_id == Len(pedigrees) + 1
         st == set_pedigree_id(i, pedigree_id,
                 [pop |-> population_map, ped |-> Pedigree(pedigree_id), pedigree_size |-> 0])
     IN /\ population_map' = st.pop
        /\ last' = [kind |-> "set_pedigree_id", this |-> i, id |-> pedigree_id,
                    ped |-> st.ped, pedigree_size |-> st.pedigree_size]
  /\ UNCHANGED <<pc, sampler_vars, pedigree_vars, check_abort, twin>>

build_pedigrees_again == \E i \in DOMAIN population_map : build_pedigrees_again_step(i)

\* --------------------------------------------------------------- haplotypes
\* A draw of R::runif(0.0, 1.0) is a number of quarters, a mutation rate a number
\* of halves; a locus of a call gets the pair <<u1, u2>> of the draws it may consume.
Mutates(u, rate) == u < 2 * rate     \* R::runif(0.0, 1.0) < mutation_rates[loc]
Downward(u) == u < 2                 \* R::runif(0.0, 1.0) < 0.5

HaplotypeError(what, pop) == [outcome |-> "error", what |-> what, pop |-> pop]

set_haplotype(pop, this, h) ==
  [pop EXCEPT ![this].m_haplotype = h, ![this].m_haplotype_set = TRUE]

\* the loop of haplotype_mutate from locus loc on
RECURSIVE haplotype_mutate_loop(_, _, _, _)
haplotype_mutate_loop(h, mutation_rates, draws, loc) ==
  IF loc > Len(h) THEN h
  ELSE LET h1 == IF Mutates(draws[loc][1], mutation_rates[loc])
                 THEN IF Downward(draws[loc][2])
                      THEN [h EXCEPT ![loc] = h[loc] - 1]
                      ELSE [h EXCEPT ![loc] = h[loc] + 1]
                 ELSE h
       IN haplotype_mutate_loop(h1, mutation_rates, draws, loc + 1)

haplotype_mutate(pop, this, mutation_rates, draws) ==
  IF ~pop[this].m_haplotype_set
  THEN HaplotypeError("Father haplotype not set yet, so cannot mutate", pop)
  ELSE IF Len(pop[this].m_haplotype) # Len(mutation_rates)
  THEN HaplotypeError("Number of loci specified in haplotype must equal number of mutation rates specified", pop)
  ELSE IF pop[this].m_haplotype_mutated
  THEN HaplotypeError("Father haplotype already set and mutated", pop)
  ELSE [outcome |-> "ok", what |-> "",
        pop |-> [pop EXCEPT ![this].m_haplotype =
                   haplotype_mutate_loop(pop[this].m_haplotype, mutation_rates, draws, 1)]]

\* the loop of haplotype_mutate_ladder_bounded from locus loc on; a throw leaves
\* the loci before loc as the loop has changed them
RECURSIVE haplotype_mutate_ladder_bounded_loop(_, _, _, _, _, _)

haplotype_mutate_ladder_bounded_loop_ChecksFirst(h, mutation_rates, ladder_min, ladder_max, draws, loc) ==
  IF loc > Len(h) THEN [outcome |-> "ok", what |-> "", h |-> h]
  ELSE IF h[loc] < ladder_min[loc]
  THEN [outcome |-> "error", what |-> "Haplotype locus lower than ladder minimum", h |-> h]
  ELSE IF h[loc] > ladder_max[loc]
  THEN [outcome |-> "error", what |-> "Haplotype locus higher than ladder minimum", h |-> h]
  ELSE IF ~Mutates(draws[loc][1], mutation_rates[loc])
  THEN haplotype_mutate_ladder_bounded_loop(h, mutation_rates, ladder_min, ladder_max, draws, loc + 1)
  ELSE LET h1 == IF h[loc] = ladder_min[loc]
                 THEN [h EXCEPT ![loc] = ladder_min[loc] + 1]
                 ELSE IF h[loc] = ladder_max[loc]
                 THEN [h EXCEPT ![loc] = ladder_max[loc] - 1]
                 ELSE IF Downward(draws[loc][2])
                 THEN [h EXCEPT ![loc] = h[loc] - 1]
                 ELSE [h EXCEPT ![loc] = h[loc] + 1]
       IN haplotype_mutate_ladder_bounded_loop(h1, mutation_rates, ladder_min, ladder_max, draws, loc + 1)

haplotype_mutate_ladder_bounded_loop(h, mutation_rates, ladder_min, ladder_max, draws, loc) ==
  IF loc > Len(h) THEN [outcome |-> "ok", what |-> "", h |-> h]
  ELSE IF ~Mutates(draws[loc][1], mutation_rates[loc])
  THEN haplotype_mutate_ladder_bounded_loop(h, mutation_rates, ladder_min, ladder_max, draws, loc + 1)
  ELSE IF h[loc] < ladder_min[loc]
  THEN [outcome |-> "error", what |-> "Haplotype locus lower than ladder minimum", h |-> h]
  ELSE IF h[loc] > ladder_max[loc]
  THEN [outcome |-> "error", what |-> "Haplotype locus higher than ladder minimum", h |-> h]
  ELSE LET h1 == IF h[loc] = ladder_min[loc]
                 THEN [h EXCEPT ![loc] = ladder_min[loc] + 1]
                 ELSE IF h[loc] = ladder_max[loc]
                 THEN [h EXCEPT ![loc] = ladder_max[loc] - 1]
                 ELSE IF Downward(draws[loc][2])
                 THEN [h EXCEPT ![loc] = h[loc] - 1]
                 ELSE [h EXCEPT ![loc] = h[loc] + 1]
       IN haplotype_mutate_ladder_bounded_loop(h1, mutation_rates, ladder_min, ladder_max, draws, loc + 1)

haplotype_mutate_ladder_bounded(pop, this, mutation_rates, ladder_min, ladder_max, draws) ==
  IF ~pop[this].m_haplotype_set
  THEN HaplotypeError("Father haplotype not set yet, so cannot mutate", pop)
  ELSE IF Len(pop[this].m_haplotype) # Len(mutation_rates)
  THEN HaplotypeError("Number of loci specified in haplotype must equal number of mutation rates specified", pop)
  ELSE IF pop[this].m_haplotype_mutated
  THEN HaplotypeError("Father haplotype already set and mutated", pop)
  ELSE LET r == haplotype_mutate_ladder_bounded_loop(pop[this].m_haplotype, mutation_rates,
                                                     ladder_min, ladder_max, draws, 1)
       IN [outcome |-> r.outcome, what |-> r.what,
           pop |-> [pop EXCEPT ![this].m_haplotype = r.h]]

\* inputs of the haplotype calls
Alleles == 4..7
Ladders == {<<5, 5>>, <<5, 6>>}       \* <<ladder_min[l], ladder_max[l]>>
Rates == {0, 1, 2}                    \* halves
LocusDraws == {<<1, 1>>, <<3, 3>>}    \* quarters: both draws low, both draws high
Vectors(S) == UNION {[1..n -> S] : n \in 1..MaxLoci}

\* sample_geneology(MaxM, 1): generation 0 only
Call_sample_geneology_founders == SamplerCall("sample_geneology", MaxM, 1)

\* the Individual the haplotype calls are made on
HaplotypeTarget == res.end_generation_individuals[1]

set_haplotype_call ==
  /\ pc = "returned"
  /\ \E h \in Vectors(Alleles) :
       /\ population_map' = set_haplotype(population_map, HaplotypeTarget, h)
       /\ last' = [kind |-> "set_haplotype", this |-> HaplotypeTarget, h |-> h]
  /\ UNCHANGED <<pc, sampler_vars, pedigree_vars, check_abort, twin>>

\* haplotype_mutate; it is called while a step keeps every allele within Alleles
haplotype_mutate_call ==
  /\ pc = "returned"
  /\ \A l \in DOMAIN population_map[HaplotypeTarget].m_haplotype :
        /\ population_map[HaplotypeTarget].m_haplotype[l] - 1 \in Alleles
        /\ population_map[HaplotypeTarget].m_haplotype[l] + 1 \in Alleles
  /\ \E mutation_rates \in Vectors(Rates) :
       \E draws \in [DOMAIN mutation_rates -> LocusDraws] :
         LET r == haplotype_mutate(population_map, HaplotypeTarget, mutation_rates, draws)
         IN /\ population_map' = r.pop
            /\ last' = [kind |-> "haplotype_mutate", this |-> HaplotypeTarget,
                        set_before |-> population_map[HaplotypeTarget].m_haplotype_set,
                        before |-> population_map[HaplotypeTarget].m_haplotype,
                        after_mutate |-> (last.kind \in {"haplotype_mutate", "haplotype_mutate_ladder_bounded"}
                                          /\ last.outcome = "ok"),
                        mutation_rates |-> mutation_rates, draws |-> draws,
                        outcome |-> r.outcome, what |-> r.what]
  /\ UNCHANGED <<pc, sampler_vars, pedigree_vars, check_abort, twin>>

haplotype_mutate_ladder_bounded_call ==
  /\ pc = "returned"
  /\ \E mutation_rates \in Vectors(Rates) :
       \E draws \in [DOMAIN mutation_rates -> LocusDraws],
          ladder \in [DOMAIN mutation_rates -> Ladders] :
         LET ladder_min == [l \in DOMAIN ladder |-> ladder[l][1]]
             ladder_max == [l \in DOMAIN ladder |-> ladder[l][2]]
             r == haplotype_mutate_ladder_bounded(population_map, HaplotypeTarget,
                                                  mutation_rates, ladder_min, ladder_max, draws)
         IN /\ population_map' = r.pop
            /\ last' = [kind |-> "haplotype_mutate_ladder_bounded", this |-> HaplotypeTarget,
                        set_before |-> population_map[HaplotypeTarget].m_haplotype_set,
                        before |-> population_map[HaplotypeTarget].m_haplotype,
                        after_mutate |-> (last.kind \in {"haplotype_mutate", "haplotype_mutate_ladder_bounded"}
                                          /\ last.outcome = "ok"),
                        mutation_rates |-> mutation_rates, draws |-> draws,
                        ladder_min |-> ladder_min, ladder_max |-> ladder_max,
                        outcome |-> r.outcome, what |-> r.what]
  /\ UNCHANGED <<pc, sampler_vars, pedigree_vars, check_abort, twin>>

\* ------------------------------------------- haplotypes passed to children
pass_haplotype_child_MutateTwice(pop, child, mutation_rates, draws) ==
  LET pop1 == set_haplotype(pop, child, pop[pop[child].father].m_haplotype)
      r == haplotype_mutate(pop1, child, mutation_rates, draws)
  IN IF r.outcome = "error" THEN r ELSE haplotype_mutate(r.pop, child, mutation_rates, draws)

\* the body of pass_haplotype_to_children's loop for one child: the child gets the
\* haplotype its father has now, then mutates it
pass_haplotype_child(pop, child, mutation_rates, draws) ==
  LET pop1 == set_haplotype(pop, child, pop[pop[child].father].m_haplotype)
  IN haplotype_mutate(pop1, child, mutation_rates, draws)

pass_haplotype_child_ladder_bounded_Unbounded(pop, child, mutation_rates, ladder_min, ladder_max, draws) ==
  pass_haplotype_child(pop, child, mutation_rates, draws)

\* the body of pass_haplotype_to_children_ladder_bounded's loop for one child
pass_haplotype_child_ladder_bounded(pop, child, mutation_rates, ladder_min, ladder_max, draws) ==
  LET pop1 == set_haplotype(pop, child, pop[pop[child].father].m_haplotype)
  IN haplotype_mutate_ladder_bounded(pop1, child, mutation_rates, ladder_min, ladder_max, draws)

\* inputs of the passes: founder haplotypes, mutation rates (halves) and ladders
PassHaplotypes == {<<5>>, <<5, 6>>}
PassRates == {<<1>>, <<0, 2>>}
PassLadders == {<<5, 5>>, <<5, 6>>, <<4, 6>>}    \* <<ladder_min[l], ladder_max[l]>>

\* a fatherless Individual is given the haplotype h, then its
\* pass_haplotype_to_children is called; last.todo holds the children whose turn of
\* the loops of the running calls is still to come, in the order of the recursion,
\* last.visited the children that have had their turn, last.before the Population
\* at the call
pass_haplotype_to_children_call ==
  /\ pc = "returned"
  /\ \E this \in DOMAIN population_map, h \in PassHaplotypes,
        mutation_rates \in PassRates, recursive \in BOOLEAN :
       /\ population_map[this].father = NULL
       /\ population_map' = set_haplotype(population_map, this, h)
       /\ last' = [kind |-> "pass_haplotype_to_children", this |-> this,
                   recursive |-> recursive, h |-> h, mutation_rates |-> mutation_rates,
                   ladder_min |-> <<>>, ladder_max |-> <<>>,
                   todo |-> population_map[this].children, visited |-> <<>>,
                   before |-> set_haplotype(population_map, this, h),
                   outcome |-> "ok", what |-> ""]
       /\ pc' = IF population_map[this].children = <<>> THEN "populated" ELSE "pass_haplotype"
  /\ UNCHANGED <<sampler_vars, pedigree_vars, check_abort, twin>>

\* the same with a ladder, for pass_haplotype_to_children_ladder_bounded; the ladder
\* has an entry for every locus of the founder's haplotype
pass_haplotype_to_children_ladder_bounded_call ==
  /\ pc = "returned"
  /\ \E this \in DOMAIN population_map, h \in PassHaplotypes,
        mutation_rates \in PassRates, recursive \in BOOLEAN :
       \E ladder \in [DOMAIN h -> PassLadders] :
         /\ population_map[this].father = NULL
         /\ population_map' = set_haplotype(population_map, this, h)
         /\ last' = [kind |-> "pass_haplotype_to_children_ladder_bounded", this |-> this,
                     recursive |-> recursive, h |-> h, mutation_rates |-> mutation_rates,
                     ladder_min |-> [l \in DOMAIN ladder |-> ladder[l][1]],
                     ladder_max |-> [l \in DOMAIN ladder |-> ladder[l][2]],
                     todo |-> population_map[this].children, visited |-> <<>>,
                     before |-> set_haplotype(population_map, this, h),
                     outcome |-> "ok", what |-> ""]
         /\ pc' = IF population_map[this].children = <<>> THEN "populated"
                  ELSE "pass_haplotype"
  /\ UNCHANGED <<sampler_vars, pedigree_vars, check_abort, twin>>

\* what the turn of the next child leaves: a throw ends the whole pass, otherwise,
\* when recursive, the child's own children come next
PassTurn(r) ==
  LET child == Head(last.todo)
      todo == (IF last.recursive THEN population_map[child].children ELSE <<>>)
                \o Tail(last.todo)
  IN /\ population_map' = r.pop
     /\ IF r.outcome = "error"
        THEN /\ pc' = "pass_failed"
             /\ last' = [last EXCEPT !.outcome = "error", !.what = r.what,
                                     !.visited = Append(@, child)]
        ELSE /\ pc' = IF todo = <<>> THEN "populated" ELSE "pass_haplotype"
             /\ last' = [last EXCEPT !.todo = todo, !.visited = Append(@, child)]
     /\ UNCHANGED <<sampler_vars, pedigree_vars, check_abort, twin>>

pass_haplotype_to_children_step ==
  /\ pc = "pass_haplotype"
  /\ last.kind = "pass_haplotype_to_children"
  /\ \E draws \in [DOMAIN last.mutation_rates -> LocusDraws] :
       PassTurn(pass_haplotype_child(population_map, Head(last.todo),
                                     last.mutation_rates, draws))

pass_haplotype_to_children_ladder_bounded_step ==
  /\ pc = "pass_haplotype"
  /\ last.kind = "pass_haplotype_to_children_ladder_bounded"
  /\ \E draws \in [DOMAIN last.mutation_rates -> LocusDraws] :
       PassTurn(pass_haplotype_child_ladder_bounded(population_map, Head(last.todo),
                  last.mutation_rates, last.ladder_min, last.ladder_max, draws))

\* ------------------------------------------------------ autosomal genotypes
\* Alleles of a genotype are indices 0..alleles_count-1; row a + 1 of the matrix
\* allele_conditional_cumdists_theta is the cumulative distribution given allele a,
\* in quarters like the draws.  d is the pair of draws the call may consume.
possible_mutate_index(index, mutation_rate, max, d) ==
  IF max <= 0 THEN [outcome |-> "error", what |-> "max must be >= 1", value |-> index]
  ELSE IF ~Mutates(d[1], mutation_rate) THEN [outcome |-> "ok", what |-> "", value |-> index]
  ELSE IF index = 0 THEN [outcome |-> "ok", what |-> "", value |-> 1]
  ELSE IF index = max THEN [outcome |-> "ok", what |-> "", value |-> max - 1]
  ELSE IF Downward(d[2]) THEN [outcome |-> "ok", what |-> "", value |-> index - 1]
  ELSE [outcome |-> "ok", what |-> "", value |-> index + 1]

\* the scan of pass_autosomal_to_children for the maternal allele, from index i on
RECURSIVE MotherScan(_, _, _)
MotherScan(cumdist, u, i) ==
  IF i >= Len(cumdist) THEN 0
  ELSE IF u <= cumdist[i + 1] THEN i
  ELSE MotherScan(cumdist, u, i + 1)

\* the body of the loop of pass_autosomal_to_children for one child, without the
\* recursive call; draws = [father, mother, mutate0, mutate1]
pass_autosomal_child_NoSwap(pop, child, cumdists, mutation_rate, draws) ==
  LET geno_father == pop[pop[child].father].m_haplotype
      father_allele == IF Downward(draws.father) THEN geno_father[1] ELSE geno_father[2]
      cumdist == cumdists[father_allele + 1]
      alleles_count == Len(cumdist)
      mother_allele == IF draws.mother > cumdist[1] THEN MotherScan(cumdist, draws.mother, 1) ELSE 0
      max == alleles_count - 1
      g0 == possible_mutate_index(father_allele, mutation_rate, max, draws.mutate0)
      g1 == possible_mutate_index(mother_allele, mutation_rate, max, draws.mutate1)
      geno == <<g0.value, g1.value>>
  IN IF g0.outcome = "error" THEN HaplotypeError(g0.what, pop)
     ELSE IF g1.outcome = "error" THEN HaplotypeError(g1.what, pop)
     ELSE [outcome |-> "ok", what |-> "", pop |-> set_haplotype(pop, child, geno)]

pass_autosomal_child(pop, child, cumdists, mutation_rate, draws) ==
  LET geno_father == pop[pop[child].father].m_haplotype
      father_allele == IF Downward(draws.father) THEN geno_father[1] ELSE geno_father[2]
      cumdist == cumdists[father_allele + 1]
      alleles_count == Len(cumdist)
      mother_allele == IF draws.mother > cumdist[1] THEN MotherScan(cumdist, draws.mother, 1) ELSE 0
      max == alleles_count - 1
      g0 == possible_mutate_index(father_allele, mutation_rate, max, draws.mutate0)
      g1 == possible_mutate_index(mother_allele, mutation_rate, max, draws.mutate1)
      geno == IF g1.value <= g0.value THEN <<g1.value, g0.value>> ELSE <<g0.value, g1.value>>
  IN IF g0.outcome = "error" THEN HaplotypeError(g0.what, pop)
     ELSE IF g1.outcome = "error" THEN HaplotypeError(g1.what, pop)
     ELSE [outcome |-> "ok", what |-> "", pop |-> set_haplotype(pop, child, geno)]

\* inputs of the autosomal calls
CumDists == { <<<<4>>>>,
              <<<<2, 4>>, <<2, 4>>>>,
              <<<<1, 2, 4>>, <<1, 2, 4>>, <<1, 2, 4>>>> }
AutosomalDraws == [father : {1, 3}, mother : {1, 2, 3}, mutate0 : LocusDraws, mutate1 : LocusDraws]

\* sample_geneology(MaxM, MaxG): the deepest genealogy of the bounds
Call_sample_geneology_deep == SamplerCall("sample_geneology", MaxM, MaxG)

\* a fatherless Individual is given the genotype h, then its
\* pass_autosomal_to_children is called; last.todo holds the children whose turn of
\* the loops of the running calls is still to come, in the order of the recursion
pass_autosomal_to_children_call ==
  /\ pc = "returned"
  /\ \E this \in DOMAIN population_map, cumdists \in CumDists,
        mutation_rate \in Rates, recursive \in BOOLEAN :
       \E h \in [1..2 -> 0..(Len(cumdists) - 1)] :
         /\ population_map[this].father = NULL
         /\ population_map' = set_haplotype(population_map, this, h)
         /\ last' = [kind |-> "pass_autosomal_to_children", this |-> this,
                     recursive |-> recursive, cumdists |-> cumdists,
                     mutation_rate |-> mutation_rate,
                     todo |-> population_map[this].children,
                     outcome |-> "ok", what |-> ""]
         /\ pc' = IF population_map[this].children = <<>> THEN "populated" ELSE "pass_autosomal"
  /\ UNCHANGED <<sampler_vars, pedigree_vars, check_abort, twin>>

\* the turn of the next child: its genotype is stored and, when recursive, its own
\* children come next
pass_autosomal_to_children_step ==
  /\ pc = "pass_autosomal"
  /\ \E draws \in AutosomalDraws :
       LET child == Head(last.todo)
           r == pass_autosomal_child(population_map, child, last.cumdists,
                                     last.mutation_rate, draws)
           todo == (IF last.recursive THEN population_map[child].children ELSE <<>>)
                     \o Tail(last.todo)
       IN /\ population_map' = r.pop
          /\ IF r.outcome = "error"
             THEN /\ pc' = "pass_failed"
                  /\ last' = [last EXCEPT !.outcome = "error", !.what = r.what]
             ELSE /\ pc' = IF todo = <<>> THEN "populated" ELSE "pass_autosomal"
                  /\ last' = [last EXCEPT !.todo = todo]
  /\ UNCHANGED <<sampler_vars, pedigree_vars, check_abort, twin>>

\* --------------------------------------------- calc_autosomal_genotype_probs
\* Exact arithmetic: allele_dist[i] is the fraction allele_dist[i] / den and theta is
\* theta / den.  After the normalisation ps[i] = allele_dist[i] / ps_sum, so every
\* returned value is a numerator over the common denominator den * ps_sum^2.
RECURSIVE SeqSum(_)
SeqSum(q) == IF q = <<>> THEN 0 ELSE Head(q) + SeqSum(Tail(q))

\* numerator of allele_dist_theta[k] for the alleles i >= j (0-based)
GenotypeProbNum_NoDoubling(ps, ps_sum, theta, den, i, j) ==
  IF i = j
  THEN theta * ps[i + 1] * ps_sum + (den - theta) * ps[i + 1] * ps[i + 1]
  ELSE (den - theta) * ps[i + 1] * ps[j + 1]

GenotypeProbNum(ps, ps_sum, theta, den, i, j) ==
  IF i = j
  THEN theta * ps[i + 1] * ps_sum + (den - theta) * ps[i + 1] * ps[i + 1]
  ELSE (den - theta) * 2 * ps[i + 1] * ps[j + 1]

\* the loops "for i, for j <= i, k++" from row i on
RECURSIVE GenotypeProbRows_Descending(_, _, _, _, _)
RECURSIVE GenotypeProbRows(_, _, _, _, _)

GenotypeProbRows_Descending(ps, ps_sum, theta, den, i) ==
  IF i >= Len(ps) THEN <<>>
  ELSE [jj \in 1..(i + 1) |-> GenotypeProbNum(ps, ps_sum, theta, den, i, i + 1 - jj)]
         \o GenotypeProbRows(ps, ps_sum, theta, den, i + 1)

GenotypeProbRows(ps, ps_sum, theta, den, i) ==
  IF i >= Len(ps) THEN <<>>
  ELSE [jj \in 1..(i + 1) |-> GenotypeProbNum(ps, ps_sum, theta, den, i, jj - 1)]
         \o GenotypeProbRows(ps, ps_sum, theta, den, i + 1)

\* outcome "nan": the sum of allele_dist is 0 and the normalisation divides 0.0 by
\* 0.0, so every returned value is a NaN
calc_autosomal_genotype_probs(allele_dist, theta, den) ==
  IF \E i \in DOMAIN allele_dist : allele_dist[i] < 0 \/ allele_dist[i] > den
  THEN [outcome |-> "error", num |-> <<>>, den |-> 1,
        what |-> "allele_dist's elements must be between 0 and 1, both included"]
  ELSE IF theta < 0 \/ theta > den
  THEN [outcome |-> "error", num |-> <<>>, den |-> 1,
        what |-> "theta must be between 0 and 1, both included"]
  ELSE LET ps_sum == SeqSum(allele_dist)
       IN IF ps_sum = 0
          THEN [outcome |-> "nan", num |-> <<>>, den |-> 1, what |-> ""]
          ELSE [outcome |-> "value", what |-> "",
                num |-> GenotypeProbRows(allele_dist, ps_sum, theta, den, 0),
                den |-> den * ps_sum * ps_sum]

calc_autosomal_genotype_probs_call ==
  /\ pc = "idle"
  /\ last = NoCall
  /\ \E den \in 1..MaxDen, alleles_count \in 1..MaxAlleles :
       \E allele_dist \in [1..alleles_count -> (-1)..(den + 1)], theta \in (-1)..(den + 1) :
         LET r == calc_autosomal_genotype_probs(allele_dist, theta, den)
         IN last' = [kind |-> "calc_autosomal_genotype_probs",
                     allele_dist |-> allele_dist, theta |-> theta, den |-> den,
                     outcome |-> r.outcome, what |-> r.what,
                     value_num |-> r.num, value_den |-> r.den]
  /\ UNCHANGED <<pc, population_map, sampler_vars, pedigree_vars, check_abort, twin>>

\* ------------------------------------------------------- theta estimator
\* Exact arithmetic for a sample of n genotypes: genotype_p[g] counts n-ths,
\* allele_p[a] counts 2n-ths, and X and y hold numerators over 4n^2.  The rows of
\* X and y are named by their genotype; the order in which the unordered_set yields
\* them does not enter the least-squares solution.
\* a missing estimate; an estimate that is present is the fraction num / den
NA_REAL == [missing |-> TRUE, num |-> 0, den |-> 1]

AddTo(f, key, x) == IF key \in DOMAIN f THEN [f EXCEPT ![key] = f[key] + x] ELSE f @@ (key :> x)

estimate_theta_1subpop_fill_containers_NoSwap(a1, a2, st) ==
  LET geno == <<a1, a2>>
  IN [genotypes_unique |-> st.genotypes_unique \cup {geno},
      genotype_p |-> AddTo(st.genotype_p, geno, 1),
      allele_p |-> IF geno[1] = geno[2]
                   THEN AddTo(st.allele_p, geno[1], 2)
                   ELSE AddTo(AddTo(st.allele_p, geno[1], 1), geno[2], 1)]

estimate_theta_1subpop_fill_containers(a1, a2, st) ==
  LET geno == IF a2 < a1 THEN <<a2, a1>> ELSE <<a1, a2>>
  IN [genotypes_unique |-> st.genotypes_unique \cup {geno},
      genotype_p |-> AddTo(st.genotype_p, geno, 1),
      allele_p |-> IF geno[1] = geno[2]
                   THEN AddTo(st.allele_p, geno[1], 2)
                   ELSE AddTo(AddTo(st.allele_p, geno[1], 1), geno[2], 1)]

\* the loop over the rows of the genotype matrix, from row i on
RECURSIVE FillRows(_, _, _)
FillRows(genotypes, i, st) ==
  IF i > Len(genotypes) THEN st
  ELSE FillRows(genotypes, i + 1,
                estimate_theta_1subpop_fill_containers(genotypes[i][1], genotypes[i][2], st))

RECURSIVE SumOver(_, _)
SumOver(S, f) == IF S = {} THEN 0
                 ELSE LET e == CHOOSE x \in S : TRUE IN f[e] + SumOver(S \ {e}, f)

\* the row of the design matrix X and of y for one unique genotype
DesignRow(geno, n, allele_p, genotype_p) ==
  IF geno[1] = geno[2]
  THEN LET p_i == allele_p[geno[1]]
           p_ii == genotype_p[geno]
       IN [X |-> 2 * n * p_i - p_i * p_i, y |-> 4 * n * p_ii - p_i * p_i]
  ELSE LET p_i == allele_p[geno[1]]
           p_j == allele_p[geno[2]]
           p_ij == genotype_p[geno]
           tmp == -2 * p_i * p_j
       IN [X |-> tmp, y |-> 4 * n * p_ij + tmp]

\* the solution of min (X b - y)^2 for the single column X is X'y / X'X
estimate_theta_1subpop(n, allele_p, genotype_p, genotypes_unique) ==
  LET K == Cardinality(genotypes_unique)
      rows == [g \in genotypes_unique |-> DesignRow(g, n, allele_p, genotype_p)]
      X == [g \in genotypes_unique |-> rows[g].X]
      y == [g \in genotypes_unique |-> rows[g].y]
      coef == [missing |-> FALSE,
               num |-> SumOver(genotypes_unique, [g \in genotypes_unique |-> X[g] * y[g]]),
               den |-> SumOver(genotypes_unique, [g \in genotypes_unique |-> X[g] * X[g]])]
  IN IF K = 1
     THEN [estimate |-> NA_REAL, error |-> TRUE, details |-> "Only one genotype observed",
           X |-> X, y |-> y]
     ELSE IF coef.num >= 0 /\ coef.num <= coef.den
     THEN [estimate |-> coef, error |-> FALSE, details |-> "OK", X |-> X, y |-> y]
     ELSE [estimate |-> coef, error |-> TRUE,
           details |-> "Estimate outside range of (0, 1)", X |-> X, y |-> y]

\* the matrix always has two columns here
estimate_theta_1subpop_genotypes(genotypes) ==
  LET n == Len(genotypes)
  IN IF n <= 0
     THEN [outcome |-> "error", what |-> "genotypes cannot be empty"]
     ELSE LET st == FillRows(genotypes, 1,
                             [genotypes_unique |-> {}, genotype_p |-> <<>>, allele_p |-> <<>>])
          IN [outcome |-> "value", what |-> "",
              theta |-> estimate_theta_1subpop(n, st.allele_p, st.genotype_p, st.genotypes_unique)]

estimate_theta_1subpop_genotypes_call ==
  /\ pc = "idle"
  /\ last = NoCall
  /\ \E n \in 0..MaxN :
       \E genotypes \in [1..n -> (0..(MaxAlleles - 1)) \X (0..(MaxAlleles - 1))] :
         LET r == estimate_theta_1subpop_genotypes(genotypes)
         IN last' = [kind |-> "estimate_theta_1subpop_genotypes", genotypes |-> genotypes,
                     outcome |-> r.outcome, what |-> r.what,
                     theta |-> IF r.outcome = "value" THEN r.theta ELSE NoResult]
  /\ UNCHANGED <<pc, population_map, sampler_vars, pedigree_vars, check_abort, twin>>

\* -------------------------------------------------------- calculate_path_to
\* find_path_from_root_to_dest is defined outside the files modelled here; following
\* the design document it yields the Individuals from the pedigree root down to x,
\* or fails when x does not descend from that root.
RECURSIVE PathUpTo(_, _, _, _)
PathUpTo(pop, root, x, below) ==
  IF x = root THEN [found |-> TRUE, path |-> <<x>> \o below]
  ELSE IF pop[x].father = NULL THEN [found |-> FALSE, path |-> <<>>]
  ELSE PathUpTo(pop, root, pop[x].father, <<x>> \o below)

find_path_from_root_to_dest(pop, root, x) == PathUpTo(pop, root, x, <<>>)

LCAIndex_Root(path_this, path_dest, LCA_index) == 1

\* the loop that counts the common prefix of the two root paths
RECURSIVE LCAIndex(_, _, _)
LCAIndex(path_this, path_dest, LCA_index) ==
  IF LCA_index < Len(path_this) /\ LCA_index < Len(path_dest)
     /\ path_this[LCA_index + 1] = path_dest[LCA_index + 1]
  THEN LCAIndex(path_this, path_dest, LCA_index + 1)
  ELSE LCA_index

PathError(what) == [outcome |-> "error", what |-> what, path |-> <<>>]

calculate_path_to_CrossPedigreeThrows(peds, pop, this, dest) ==
  IF ~pedigree_is_set(pop, this) THEN PathError("!(this->pedigree_is_set())")
  ELSE IF dest = NULL THEN PathError("dest is NULL")
  ELSE IF ~pedigree_is_set(pop, dest) THEN PathError("!(dest->pedigree_is_set())")
  ELSE IF pop[this].pedigree_id # pop[dest].pedigree_id
  THEN PathError("this and dest are in different pedigrees")
  ELSE
    LET root == peds[pop[this].pedigree].root
        path_this == find_path_from_root_to_dest(pop, root, this)
        path_dest == find_path_from_root_to_dest(pop, root, dest)
        LCA_index == LCAIndex(path_this.path, path_dest.path, 0)
    IN IF ~path_this.found THEN PathError("Could not find path between root and this")
       ELSE IF ~path_dest.found THEN PathError("Could not find path between root and dest")
       ELSE IF LCA_index = 0 THEN PathError("LCA_index cannot be 0")
       ELSE [outcome |-> "value", what |-> "",
             path |-> <<path_this.path[LCA_index]>>
                        \o SubSeq(path_this.path, LCA_index + 1, Len(path_this.path))
                        \o SubSeq(path_dest.path, LCA_index + 1, Len(path_dest.path))]

calculate_path_to(peds, pop, this, dest) ==
  IF ~pedigree_is_set(pop, this) THEN PathError("!(this->pedigree_is_set())")
  ELSE IF dest = NULL THEN PathError("dest is NULL")
  ELSE IF ~pedigree_is_set(pop, dest) THEN PathError("!(dest->pedigree_is_set())")
  ELSE IF pop[this].pedigree_id # pop[dest].pedigree_id
  THEN [outcome |-> "value", what |-> "", path |-> <<>>]
  ELSE
    LET root == peds[pop[this].pedigree].root
        path_this == find_path_from_root_to_dest(pop, root, this)
        path_dest == find_path_from_root_to_dest(pop, root, dest)
        LCA_index == LCAIndex(path_this.path, path_dest.path, 0)
    IN IF ~path_this.found THEN PathError("Could not find path between root and this")
       ELSE IF ~path_dest.found THEN PathError("Could not find path between root and dest")
       ELSE IF LCA_index = 0 THEN PathError("LCA_index cannot be 0")
       ELSE [outcome |-> "value", what |-> "",
             path |-> <<path_this.path[LCA_index]>>
                        \o SubSeq(path_this.path, LCA_index + 1, Len(path_this.path))
                        \o SubSeq(path_dest.path, LCA_index + 1, Len(path_dest.path))]

calculate_path_to_call(this, dest) ==
  /\ pc \in {"returned", "built", "build_aborted"}
  /\ LET r == calculate_path_to(pedigrees, population_map, this, dest)
     IN last' = [kind |-> "calculate_path_to", this |-> this, dest |-> dest,
                 outcome |-> r.outcome, what |-> r.what, path |-> r.path]
  /\ UNCHANGED <<pc, population_map, sampler_vars, pedigree_vars, check_abort, twin>>

calculate_path ==
  \E this \in DOMAIN population_map, dest \in (DOMAIN population_map) \cup {NULL} :
     calculate_path_to_call(this, dest)

\* ------------------------------------------------------------ meiotic_dist
meiotic_dist_call(ind1, ind2) ==
  /\ pc \in {"returned", "built", "build_aborted"}
  /\ LET r == meiosis_dist_tree(pedigrees, population_map, ind1, ind2)
     IN /\ population_map' = r.pop
        /\ last' = [kind |-> "meiotic_dist", this |-> ind1, dest |-> ind2,
                    outcome |-> r.outcome, what |-> r.what, value |-> r.value]
  /\ UNCHANGED <<pc, sampler_vars, pedigree_vars, check_abort, twin>>

meiotic_dist ==
  \E ind1 \in DOMAIN population_map, ind2 \in (DOMAIN population_map) \cup {NULL} :
     meiotic_dist_call(ind1, ind2)

Init ==
  /\ pc = "idle"
  /\ fn = "none"
  /\ population_size = 0
  /\ generations = 0
  /\ population_map = <<>>
  /\ individual_id = 1
  /\ children_generation = <<>>
  /\ founders_left = 0
  /\ generation = 0
  /\ last_k = <<>>
  /\ res = NoResult
  /\ pedigrees = <<>>
  /\ pedigree_size = <<>>
  /\ pedigrees_handle = FALSE
  /\ check_abort = FALSE
  /\ last = NoCall
  /\ verbose = VerboseOff
  /\ twin = NoTwin

Next ==
  \/ Call_sample_geneology
  \/ Call_sample_geneology_variance
  \/ Step_sample_geneology
  \/ Step_sample_geneology_variance
  \/ SamplerReturn
  \/ build_pedigrees

\* sampling and pedigree building
Spec == Init /\ [][Next]_vars

\* all children of a turn draw one father slot
AllSameSlot(kids, father_i) ==
  \A i \in DOMAIN kids : \A j \in DOMAIN kids :
    (kids[i] # NULL /\ kids[j] # NULL) => father_i[i - 1] = father_i[j - 1]

\* a turn of a sampler's loop that is never cancelled. The bound MaxG cuts off the
\* turns after which the loop goes on; the turn in which all children draw one
\* slot is followed one generation further, so that it can be taken wherever the
\* loop stands
Run_step(father_i) ==
  /\ pc = "loop"
  /\ LoopCondition(generations, generation, founders_left)
  /\ generation <= MaxG
  /\ generation < MaxG \/ AllSameSlot(children_generation, father_i)
  /\ GenerationStep(father_i, FALSE)
  /\ UNCHANGED twin

Run_step_sample_geneology ==
  /\ pc = "loop"
  /\ fn = "sample_geneology"
  /\ \E draws \in [0..(population_size - 1) -> UnifDraws(population_size)] :
       Run_step([i \in 0..(population_size - 1) |->
                   sample_person(population_size, draws[i])])

Run_step_sample_geneology_variance ==
  /\ pc = "loop"
  /\ fn = "sample_geneology_variance"
  /\ \E w \in GammaDraws(population_size) :
       LET fathers_prob_perm == SortIndexDescend(w, 0..(population_size - 1))
           fathers_prob == FathersProbCum(w, population_size)
       IN \E draws \in [0..(population_size - 1) -> WeightedDraws(fathers_prob)] :
            Run_step([i \in 0..(population_size - 1) |->
                        sample_person_weighted(population_size, fathers_prob,
                                               fathers_prob_perm, draws[i])])

\* the turn after which one founder is left
Run_last_round ==
  /\ Run_step_sample_geneology \/ Run_step_sample_geneology_variance
  /\ founders_left' = 1

RunNext ==
  \/ Call_sample_geneology
  \/ Call_sample_geneology_variance
  \/ Run_step_sample_geneology
  \/ Run_step_sample_geneology_variance
  \/ SamplerReturn

\* a sampler that is never cancelled: a called sampler keeps running (weak
\* fairness of its turns and of its return), and the draws are fair: the turn in
\* which all children draw one slot, possible at every head of the loop, is not
\* avoided forever (strong fairness)
RunSpec ==
  /\ Init /\ [][RunNext]_vars
  /\ WF_vars(Run_step_sample_geneology \/ Run_step_sample_geneology_variance)
  /\ SF_vars(Run_last_round)
  /\ WF_vars(SamplerReturn)

PassNext ==
  \/ Call_sample_geneology_deep
  \/ Step_sample_geneology
  \/ SamplerReturn
  \/ pass_haplotype_to_children_call
  \/ pass_haplotype_to_children_step
  \/ pass_haplotype_to_children_ladder_bounded_call
  \/ pass_haplotype_to_children_ladder_bounded_step

\* a genealogy of MaxG generations, then one pass of haplotypes from a founder
PassSpec == Init /\ [][PassNext]_vars

VerboseNext ==
  \/ Call_sample_geneology_verbose
  \/ Call_sample_geneology_variance_verbose
  \/ Step_sample_geneology
  \/ Step_sample_geneology_variance
  \/ SamplerReturn

\* the samplers called with verbose_result = true
VerboseSpec == Init /\ [][VerboseNext]_vars

WeightedNext == sample_person_weighted_call

\* sample_person_weighted on its own
WeightedSpec == Init /\ [][WeightedNext]_vars

TwinNext ==
  \/ Twin_call
  \/ Twin_step_sample_geneology
  \/ Twin_step_sample_geneology_variance
  \/ Twin_return
  \/ build_pedigrees
  \/ Twin_build_pedigrees

\* two runs of one sampler call with the same draws, each followed by its own
\* build_pedigrees
TwinSpec == Init /\ [][TwinNext]_vars

QueryNext ==
  \/ Call_sample_geneology
  \/ Step_sample_geneology
  \/ SamplerReturn
  \/ build_pedigrees
  \/ meiotic_dist

\* a sampled and flood-filled Population, then any sequence of meiotic_dist calls
QuerySpec == Init /\ [][QueryNext]_vars

RebuildNext ==
  \/ Call_sample_geneology
  \/ Step_sample_geneology
  \/ SamplerReturn
  \/ build_pedigrees
  \/ build_pedigrees_again

\* a sampled and flood-filled Population, then a second flood-fill over it
RebuildSpec == Init /\ [][RebuildNext]_vars

MutateNext ==
  \/ Call_sample_geneology_founders
  \/ SamplerReturn
  \/ set_haplotype_call
  \/ haplotype_mutate_call
  \/ haplotype_mutate_ladder_bounded_call

\* a Population of founders, then any sequence of haplotype calls on one of them
MutateSpec == Init /\ [][MutateNext]_vars

AutosomalNext ==
  \/ Call_sample_geneology_deep
  \/ Step_sample_geneology
  \/ SamplerReturn
  \/ pass_autosomal_to_children_call
  \/ pass_autosomal_to_children_step

\* a genealogy, then one pass of autosomal genotypes down from a founder
AutosomalSpec == Init /\ [][AutosomalNext]_vars

ProbsNext == calc_autosomal_genotype_probs_call

\* one call of calc_autosomal_genotype_probs in a fresh session
ProbsSpec == Init /\ [][ProbsNext]_vars

ThetaNext == estimate_theta_1subpop_genotypes_call

\* one call of estimate_theta_1subpop_genotypes in a fresh session
ThetaSpec == Init /\ [][ThetaNext]_vars

PathNext ==
  \/ Call_sample_geneology
  \/ Step_sample_geneology
  \/ SamplerReturn
  \/ build_pedigrees
  \/ calculate_path

\* a sampled and flood-filled Population, then any sequence of calculate_path_to calls
PathSpec == Init /\ [][PathNext]_vars

\* ================================================================ claims
Pop == DOMAIN population_map
Range(q) == {q[k] : k \in DOMAIN q}
Father(x) == population_map[x].father
Founders == {x \in Pop : Father(x) = NULL}

\* number of father links from x up to c, or -1 when c is not an ancestor-or-self of x
RECURSIVE StepsUp(_, _, _)
StepsUp(x, c, n) ==
  IF x = c THEN n ELSE IF Father(x) = NULL THEN -1 ELSE StepsUp(Father(x), c, n + 1)

Min(S) == CHOOSE m \in S : \A k \in S : m <= k

\* length of the path between a and b along father links, -1 when there is none
TreeDist(a, b) ==
  LET common == {c \in Pop : StepsUp(a, c, 0) >= 0 /\ StepsUp(b, c, 0) >= 0}
  IN IF common = {} THEN -1
     ELSE Min({StepsUp(a, c, 0) + StepsUp(b, c, 0) : c \in common})

\* the Individuals linked to x by a father pointer or a children entry, either way round
Neighbours(x) ==
  {y \in Pop : \/ Father(x) = y
               \/ Father(y) = x
               \/ y \in Range(population_map[x].children)
               \/ x \in Range(population_map[y].children)}

RECURSIVE Component(_)
Component(S) ==
  LET T == S \cup UNION {Neighbours(x) : x \in S}
  IN IF T = S THEN S ELSE Component(T)

Count(q, e) == Cardinality({k \in DOMAIN q : q[k] = e})

IsDistCall == last.kind = "meiotic_dist"

\* C1: a meiotic_dist call that returns a value returns the number of father-child
\* edges on the tree path between the two Individuals when they share a pedigree,
\* and -1 when they do not, whatever the scratch fields held before the call.
C1_DistIsTreeDistance ==
  (IsDistCall /\ last.outcome = "value") =>
     IF population_map[last.this].pedigree_id = population_map[last.dest].pedigree_id
     THEN last.value >= 0 /\ last.value = TreeDist(last.this, last.dest)
     ELSE last.value = -1 /\ TreeDist(last.this, last.dest) = -1

C1_Witness ==
  /\ IsDistCall /\ last.outcome = "value" /\ last.value = 4
  /\ last.this # last.dest

\* C2: once the flood-fill has covered the Population, every Individual has a
\* non-zero pedigree_id, is a member of exactly one Pedigree (once), the member
\* lists together are the Population, two Individuals share a pedigree_id exactly
\* when father/children links connect them, and each size counter is the member count.
C2_FloodFillPartition ==
  pc = "built" =>
    /\ \A x \in Pop : population_map[x].pedigree_id # 0
    /\ \A x \in Pop :
         /\ Cardinality({k \in DOMAIN pedigrees : x \in Range(pedigrees[k].all_individuals)}) = 1
         /\ Count(pedigrees[population_map[x].pedigree].all_individuals, x) = 1
         /\ pedigrees[population_map[x].pedigree].id = population_map[x].pedigree_id
    /\ UNION {Range(pedigrees[k].all_individuals) : k \in DOMAIN pedigrees} = Pop
    /\ \A x \in Pop :
         {y \in Pop : population_map[y].pedigree_id = population_map[x].pedigree_id}
           = Component({x})
    /\ \A k \in DOMAIN pedigrees : pedigree_size[k] = Len(pedigrees[k].all_individuals)

C2_Witness ==
  /\ pc = "built"
  /\ Len(pedigrees) = 2
  /\ \E k \in DOMAIN pedigrees : Len(pedigrees[k].all_individuals) >= 3

\* C3: every Individual with a father is one generation below that father and is
\* listed among the father's children, after every generation step and on return.
C3_FatherLinks ==
  \A x \in Pop :
    Father(x) # NULL =>
      /\ population_map[Father(x)].generation = population_map[x].generation + 1
      /\ x \in Range(population_map[Father(x)].children)

C3_Witness ==
  /\ pc = "loop"
  /\ fn = "sample_geneology_variance"
  /\ \E x \in Pop : Father(x) # NULL /\ Father(Father(x)) # NULL

\* C4: after sampling and flood-fill every pedigree is a tree: exactly one member
\* has no father and it is the root, and the relation list holds every
\* (father, child) edge between members exactly once, |members| - 1 entries in all.
C4_PedigreeIsTree ==
  pc = "built" =>
    \A k \in DOMAIN pedigrees :
      LET ped == pedigrees[k]
          members == Range(ped.all_individuals)
          edges == {<<Father(x), x>> : x \in {m \in members : Father(m) # NULL}}
      IN /\ Cardinality(members \cap Founders) = 1
         /\ ped.root \in members \cap Founders
         /\ \A e \in edges : e[1] \in members /\ Count(ped.relations, e) = 1
         /\ Range(ped.relations) = edges
         /\ Len(ped.relations) = Len(ped.all_individuals) - 1

C4_Witness ==
  /\ pc = "built"
  /\ generations = MaxG
  /\ Cardinality(Founders) = 2
  /\ \A k \in DOMAIN pedigrees : Len(pedigrees[k].relations) = 2

\* C5: in sentinel mode a further generation is sampled only while more than one
\* father was allocated in the latest generation and the sampler returns only when
\* at most one was; on return founders is 1 and the single Individual without a
\* father is the only Individual of the oldest generation.
C5_SentinelState ==
  (generations = -1 /\ res.kind = "list") =>
    /\ res.founders = 1
    /\ Cardinality(Founders) = 1
    /\ \A x \in Founders :
         /\ \A y \in Pop : population_map[y].generation <= population_map[x].generation
         /\ \A y \in Pop : population_map[y].generation = population_map[x].generation => y = x

C5_SentinelStep ==
  (generations = -1 /\ pc = "loop") =>
    /\ (generation' = generation + 1 => founders_left > 1)
    /\ ((pc' = "aborted" /\ pc = "loop") => founders_left > 1)
    /\ (pc' = "returned" => ~(founders_left > 1))

C5_SentinelUntilOneFounder == [](C5_SentinelState) /\ [][C5_SentinelStep]_vars

C5_Witness ==
  /\ generations = -1
  /\ res.kind = "list"
  /\ res.generations = 3

\* C6: with a fixed G the Individuals without a father on return are exactly those
\* of generation G - 1 and founders is their number; for G = 1 the Population is
\* the M childless generation-0 Individuals; for G >= 2 every generation-0
\* Individual has a father of generation 1.
C6_FixedGenerationsResult ==
  (fn = "sample_geneology" /\ generations >= 1 /\ res.kind = "list") =>
    /\ \A x \in Pop : (Father(x) = NULL) <=> (population_map[x].generation = generations - 1)
    /\ res.founders = Cardinality(Founders)
    /\ generations = 1 =>
         /\ Pop = 1..population_size
         /\ \A x \in Pop : population_map[x].generation = 0 /\ Father(x) = NULL
                           /\ population_map[x].children = <<>>
         /\ res.founders = population_size
    /\ generations >= 2 =>
         \A x \in Pop : population_map[x].generation = 0 =>
            Father(x) # NULL /\ population_map[Father(x)].generation = 1

C6_Witness ==
  /\ fn = "sample_geneology"
  /\ generations = 3
  /\ res.kind = "list"
  /\ res.founders = 2

\* C7: both samplers fail, before any Individual exists, exactly when
\* population_size <= 1, generations = 0 or generations < -1.
C7_ArgumentValidation ==
  pc # "idle" =>
    /\ (pc = "failed") <=> (population_size <= 1 \/ generations = 0 \/ generations < -1)
    /\ pc = "failed" => (Pop = {} /\ individual_id = 1 /\ res = NoResult)
    /\ (population_size > 1 /\ (generations = -1 \/ generations >= 1)) => pc # "failed"

C7_Witness ==
  /\ pc = "failed"
  /\ fn = "sample_geneology_variance"
  /\ population_size = 2
  /\ generations = -2

\* C8: the probe is consulted after each generation has been linked; once it
\* answers cancelled the sampler has failed without a result and nothing more is sampled.
InSampler == pc \in {"loop", "aborted", "returned"}

C8_CancelState ==
  /\ (InSampler /\ check_abort) => pc = "aborted"
  /\ pc = "aborted" =>
       /\ res = NoResult
       /\ ~pedigrees_handle
       /\ \A x \in Pop : population_map[x].generation < generation => Father(x) # NULL

C8_CancelStep ==
  /\ pc = "aborted" => UNCHANGED <<population_map, individual_id, generation, res>>
  /\ (pc = "loop" /\ pc' \in {"loop", "aborted"}) =>
        /\ individual_id' > individual_id
        /\ \A x \in DOMAIN population_map' :
             population_map'[x].generation < generation => population_map'[x].father # NULL

C8_CancellationStops == [](C8_CancelState) /\ [][C8_CancelStep]_vars

C8_Witness ==
  /\ pc = "aborted"
  /\ generation = 2
  /\ fn = "sample_geneology"

\* C9: a call on one Individual returns 0, and the reverse call made right after
\* a call returns the same value.
C9_DistSymmetric ==
  (IsDistCall /\ last.outcome = "value") =>
    /\ last.this = last.dest => last.value = 0
    /\ meiosis_dist_tree(pedigrees, population_map, last.dest, last.this).value = last.value

C9_Witness ==
  /\ IsDistCall /\ last.outcome = "value" /\ last.value = 3

\* C10: the call fails exactly when the caller has no pedigree, the destination
\* is null or the destination has no pedigree, also when the pedigree ids differ,
\* and a failing call leaves every scratch field as it was.
C10_ErrorState ==
  IsDistCall =>
    (last.outcome = "error") <=>
       \/ population_map[last.this].pedigree_id = 0
       \/ last.dest = NULL
       \/ population_map[last.dest].pedigree_id = 0

C10_ErrorStep ==
  (last'.kind = "meiotic_dist" /\ last'.outcome = "error") => population_map' = population_map

C10_ErrorsBeforeScratch == [](C10_ErrorState) /\ [][C10_ErrorStep]_vars

C10_Witness ==
  /\ IsDistCall /\ last.outcome = "error" /\ last.what = "!(dest->pedigree_is_set())"
  /\ \E x \in Pop : population_map[x].dijkstra_visited

\* ---------------------------------------------------------------- C11
\* C11: set_pedigree_id started on an Individual that already has a pedigree id
\* changes nothing: every Individual keeps its pedigree_id and pedigree reference,
\* the pedigrees built before keep their members and relations, the Pedigree
\* handed to the call receives no member and no relation, and the size counter
\* handed to the call stays 0.
C11_SecondFloodFillNoOp ==
  [][last'.kind = "set_pedigree_id" =>
       /\ population_map' = population_map
       /\ pedigrees' = pedigrees
       /\ pedigree_size' = pedigree_size
       /\ last'.ped = Pedigree(last'.id)
       /\ last'.pedigree_size = 0]_vars

\* a second flood-fill turn ran on an Individual that has a father and a child
C11_Witness ==
  /\ last.kind = "set_pedigree_id"
  /\ Father(last.this) # NULL
  /\ population_map[last.this].children # <<>>

\* ------------------------------------------------------- C12 .. C15
IsLadderCall == last.kind = "haplotype_mutate_ladder_bounded"
IsMutateCall == last.kind \in {"haplotype_mutate", "haplotype_mutate_ladder_bounded"}
\* the call passed the checks at its head and entered its loop over the loci
EnteredLoop == last.set_before /\ Len(last.before) = Len(last.mutation_rates)
HaplotypeAfter == population_map[last.this].m_haplotype
Loci == DOMAIN last.before
MutationDrawn(l) == Mutates(last.draws[l][1], last.mutation_rates[l])
OutsideLadder(l) == last.before[l] < last.ladder_min[l] \/ last.before[l] > last.ladder_max[l]

\* C12: for every ladder with ladder_min[l] <= ladder_max[l] and every rate, a
\* ladder-bounded call never decreases an allele that was at ladder_min[l] and never
\* increases one that was at ladder_max[l]; where such an allele changed, it went
\* one step up from ladder_min and one step down from ladder_max.
C12_LadderEndsForced ==
  (IsLadderCall /\ EnteredLoop) =>
     \A l \in Loci :
       /\ last.before[l] = last.ladder_min[l] =>
            /\ HaplotypeAfter[l] >= last.before[l]
            /\ HaplotypeAfter[l] # last.before[l] => HaplotypeAfter[l] = last.ladder_min[l] + 1
       /\ last.before[l] = last.ladder_max[l] =>
            /\ HaplotypeAfter[l] <= last.before[l]
            /\ HaplotypeAfter[l] # last.before[l] => HaplotypeAfter[l] = last.ladder_max[l] - 1

\* C13: a mutation that must happen (rate 1) on an allele equal to the single value
\* of a ladder with ladder_min[l] = ladder_max[l] makes the call fail; with ladder
\* [5..6], haplotype <<5>> and rate 1 the call succeeds and the allele becomes 6.
C13_SingleValueLadderFails ==
  (IsLadderCall /\ EnteredLoop) =>
     /\ (\E l \in Loci : /\ last.ladder_min[l] = last.ladder_max[l]
                          /\ last.before[l] = last.ladder_min[l]
                          /\ last.mutation_rates[l] = 2)
          => last.outcome = "error"
     /\ (last.before = <<5>> /\ last.ladder_min = <<5>> /\ last.ladder_max = <<6>>
          /\ last.mutation_rates = <<2>>)
          => (last.outcome = "ok" /\ HaplotypeAfter = <<6>>)

\* C14 as stated: a ladder-bounded call on a haplotype with an allele strictly
\* outside its ladder fails, whatever the rates and the draws.
C14_OutsideLadderAlwaysFails ==
  (IsLadderCall /\ EnteredLoop /\ \E l \in Loci : OutsideLadder(l)) => last.outcome = "error"

\* C14 amended: a ladder-bounded call that has entered its loop fails exactly when
\* a mutation is drawn at a locus whose allele is strictly outside its ladder; when
\* it does not fail, every allele outside its ladder is left as it was.
C14_OutsideLadderFailsOnMutation ==
  (IsLadderCall /\ EnteredLoop) =>
     /\ last.outcome = "error" <=> \E l \in Loci : MutationDrawn(l) /\ OutsideLadder(l)
     /\ last.outcome = "ok" =>
          \A l \in Loci : OutsideLadder(l) => HaplotypeAfter[l] = last.before[l]

\* a call failed at its second locus after a mutation at its first, and another
\* call went through although an allele was outside its ladder
C14_Witness ==
  /\ IsLadderCall /\ EnteredLoop
  /\ Len(last.before) = 2
  /\ last.outcome = "error"
  /\ ~OutsideLadder(1) /\ MutationDrawn(1) /\ OutsideLadder(2)
  /\ last.mutation_rates[2] = 1

\* C15: a mutate call fails and changes nothing when the haplotype has not been
\* set, and also when the call before it on the same Individual was a successful
\* mutate call.
C15_MutateOnlyOnce ==
  IsMutateCall =>
     /\ ~last.set_before => (last.outcome = "error" /\ HaplotypeAfter = last.before)
     /\ last.after_mutate => (last.outcome = "error" /\ HaplotypeAfter = last.before)

\* ---------------------------------------------------------------- C16
\* C16: every genotype that pass_autosomal_to_children has stored in a child, at
\* any depth, is a pair <<a, b>> with a <= b.
C16_GenotypeOrdered ==
  \A i \in Pop :
    (Father(i) # NULL /\ population_map[i].m_haplotype_set) =>
       /\ Len(population_map[i].m_haplotype) = 2
       /\ population_map[i].m_haplotype[1] <= population_map[i].m_haplotype[2]

\* a recursive pass has ended; a grandchild of the founder holds a heterozygous
\* genotype and its father's genotype was given in descending order
C16_Witness ==
  /\ pc = "populated"
  /\ last.recursive
  /\ \E i \in Pop :
       /\ Father(i) # NULL /\ Father(Father(i)) = last.this
       /\ population_map[i].m_haplotype_set
       /\ population_map[i].m_haplotype[1] < population_map[i].m_haplotype[2]
       /\ population_map[last.this].m_haplotype[1] > population_map[last.this].m_haplotype[2]

\* ------------------------------------------------------- C17 .. C18
IsProbsCall == last.kind = "calc_autosomal_genotype_probs"
\* allele_dist is an allele distribution: entries in [0,1], not all of them 0
IsAlleleDist ==
  /\ \A i \in DOMAIN last.allele_dist : last.allele_dist[i] \in 0..last.den
  /\ \E i \in DOMAIN last.allele_dist : last.allele_dist[i] > 0
ThetaInRange == last.theta \in 0..last.den
AllelesCount == Len(last.allele_dist)

\* C17: for every allele distribution with entries in [0,1] and every theta in
\* [0,1] the call returns K(K+1)/2 values and their exact sum is 1.
C17_ProbsSumToOne ==
  (IsProbsCall /\ IsAlleleDist /\ ThetaInRange) =>
     /\ last.outcome = "value"
     /\ 2 * Len(last.value_num) = AllelesCount * (AllelesCount + 1)
     /\ SeqSum(last.value_num) = last.value_den

\* three alleles of different positive weights that do not sum to 1, theta
\* strictly between 0 and 1
C17_Witness ==
  /\ IsProbsCall /\ last.outcome = "value"
  /\ last.den = 5
  /\ last.allele_dist = <<1, 2, 3>>
  /\ last.theta = 2

\* the value at place k (from 1) equals the fraction n / d
ValueIs(k, n, d) == last.value_num[k] * d = n * last.value_den
PsSum == SeqSum(last.allele_dist)
\* the genotype of the alleles i >= j (0-based) stands at place i(i+1)/2 + j + 1 and
\* holds theta*p_i + (1-theta)*p_i^2 if i = j, (1-theta)*2*p_i*p_j otherwise, where
\* p_i = allele_dist[i] / PsSum
OrderAndFormulae ==
  \A i \in 0..(AllelesCount - 1) : \A j \in 0..i :
    LET k == (i * (i + 1)) \div 2 + j + 1
        pi == last.allele_dist[i + 1]
        pj == last.allele_dist[j + 1]
    IN IF i = j
       THEN ValueIs(k, last.theta * pi * PsSum + (last.den - last.theta) * pi * pi,
                    last.den * PsSum * PsSum)
       ELSE ValueIs(k, (last.den - last.theta) * 2 * pi * pj, last.den * PsSum * PsSum)
IsExample ==
  IsProbsCall /\ last.den = 10 /\ last.allele_dist = <<2, 3, 5>> /\ last.theta = 1

\* C18 as stated: lower-triangular order with the two formulae, and for
\* p = [0.2, 0.3, 0.5], theta = 0.1 the vector [0.052, 0.108, 0.093, 0.180, 0.270, 0.275].
C18_OrderFormulaeExample ==
  /\ (IsProbsCall /\ last.outcome = "value") => OrderAndFormulae
  /\ IsExample =>
       /\ Len(last.value_num) = 6
       /\ ValueIs(1, 52, 1000) /\ ValueIs(2, 108, 1000) /\ ValueIs(3, 93, 1000)
       /\ ValueIs(4, 180, 1000) /\ ValueIs(5, 270, 1000) /\ ValueIs(6, 275, 1000)

\* C18 amended: lower-triangular order with the two formulae, and for
\* p = [0.2, 0.3, 0.5], theta = 0.1 the vector [0.056, 0.108, 0.111, 0.180, 0.270, 0.275].
C18_OrderFormulaeExampleAmended ==
  /\ (IsProbsCall /\ last.outcome = "value") => OrderAndFormulae
  /\ IsExample =>
       /\ Len(last.value_num) = 6
       /\ ValueIs(1, 56, 1000) /\ ValueIs(2, 108, 1000) /\ ValueIs(3, 111, 1000)
       /\ ValueIs(4, 180, 1000) /\ ValueIs(5, 270, 1000) /\ ValueIs(6, 275, 1000)

\* the call of the example has returned
C18_Witness == IsExample /\ last.outcome = "value"

\* ---------------------------------------------------------------- C19
IsThetaCall == last.kind = "estimate_theta_1subpop_genotypes"
\* the genotypes of the sample as unordered pairs
UnorderedGenotypes == {{last.genotypes[i][1], last.genotypes[i][2]} : i \in DOMAIN last.genotypes}
\* b = num / den solves the normal equation X'(X b - y) = 0 of min (X b - y)^2
IsLeastSquares(b, X, y) ==
  /\ b.den > 0
  /\ SumOver(DOMAIN X, [g \in DOMAIN X |-> X[g] * (X[g] * b.num - y[g] * b.den)]) = 0
InUnitInterval(b) == b.num >= 0 /\ b.num <= b.den

\* C19: a call on n >= 1 genotypes returns a List and raises nothing.  With a single
\* unordered genotype in the sample the List has error = true, the details "Only one
\* genotype observed" and a missing estimate; otherwise its estimate is the
\* least-squares estimate, error is false and details are "OK" exactly when that
\* estimate lies in [0,1], and error is true when it lies outside.
C19_ThetaOutcomeAsValue ==
  (IsThetaCall /\ Len(last.genotypes) >= 1) =>
     /\ last.outcome = "value"
     /\ IF Cardinality(UnorderedGenotypes) = 1
        THEN /\ last.theta.error = TRUE
             /\ last.theta.details = "Only one genotype observed"
             /\ last.theta.estimate = NA_REAL
        ELSE /\ ~last.theta.estimate.missing
             /\ IsLeastSquares(last.theta.estimate, last.theta.X, last.theta.y)
             /\ (last.theta.error = FALSE /\ last.theta.details = "OK")
                  <=> InUnitInterval(last.theta.estimate)
             /\ ~InUnitInterval(last.theta.estimate) => last.theta.error = TRUE

\* a sample whose only genotype was given in both orders, (0,1) and (1,0)
C19_Witness ==
  /\ IsThetaCall
  /\ last.genotypes = <<<<0, 1>>, <<1, 0>>>>
  /\ last.theta.details = "Only one genotype observed"

\* ---------------------------------------------------------------- C20
IsPathCall == last.kind = "calculate_path_to"
\* both Individuals of the call have a pedigree, and not the same one
CrossPedigree ==
  /\ last.dest # NULL
  /\ pedigree_is_set(population_map, last.this)
  /\ pedigree_is_set(population_map, last.dest)
  /\ population_map[last.this].pedigree_id # population_map[last.dest].pedigree_id

\* C20 as stated: calculate_path_to fails with an error when the two Individuals
\* have pedigrees assigned and these differ.
C20_CrossPedigreeFails ==
  (IsPathCall /\ CrossPedigree) => last.outcome = "error"

\* C20 amended: calculate_path_to raises no error when the two Individuals have
\* pedigrees assigned and these differ; it returns the empty vector.
C20_CrossPedigreeEmptyPath ==
  (IsPathCall /\ CrossPedigree) => (last.outcome = "value" /\ last.path = <<>>)

\* a call between two Individuals of different pedigrees, neither of them a founder
C20_Witness ==
  /\ IsPathCall /\ CrossPedigree
  /\ Father(last.this) # NULL /\ Father(last.dest) # NULL

\* the links of a Population: who is in it, in which generation, with which father
\* and which children in which order
Links(pop) ==
  [p \in DOMAIN pop |-> [pid |-> pop[p].pid, generation |-> pop[p].generation,
                         father |-> pop[p].father, children |-> pop[p].children]]

\* the sets of Individuals that share a pedigree id
Partition(pop) ==
  {{q \in DOMAIN pop : pop[q].pedigree_id = pop[p].pedigree_id} : p \in DOMAIN pop}

GenerationMembers(g) == {x \in Pop : population_map[x].generation = g}

\* C22: after sample_geneology(M, G) with a fixed G >= 1 the pids are unique and are
\* exactly 1..|Population|, handed out in order of creation (a later generation has
\* the larger pids); every Individual's generation lies in 0..G-1; each of the
\* generations 0..G-1 holds between 1 and M Individuals; and the Population holds
\* between M + G - 1 and M*G Individuals (for M = 4, G = 3 that is 6 to 12, inside
\* the range 5 to 12).
C22_PidsAndSizes ==
  (fn = "sample_geneology" /\ generations >= 1 /\ res.kind = "list") =>
    LET M == population_size
        G == generations
        N == Cardinality(Pop)
    IN /\ Pop = 1..N
       /\ \A x \in Pop : population_map[x].pid = x
       /\ individual_id = N + 1
       /\ \A x \in Pop : \A y \in Pop :
            x < y => population_map[x].generation <= population_map[y].generation
       /\ \A x \in Pop : population_map[x].generation \in 0..(G - 1)
       /\ \A g \in 0..(G - 1) : Cardinality(GenerationMembers(g)) \in 1..M
       /\ M + G - 1 <= N /\ N <= M * G
       /\ 5 <= 4 + 3 - 1 /\ 4 * 3 <= 12

\* a run of three generations that ends with the fewest Individuals possible
C22_Witness ==
  /\ fn = "sample_geneology" /\ res.kind = "list"
  /\ generations = MaxG
  /\ Cardinality(Pop) = population_size + generations - 1

\* the rounds of father sampling a Population has been through
Rounds == CHOOSE g \in 0..(MaxG + 1) :
            /\ GenerationMembers(g) # {}
            /\ \A h \in (g + 1)..(MaxG + 1) : GenerationMembers(h) = {}

C23_RoundsAndGenerations ==
  res.kind = "list" =>
    /\ res.generations = 1 + Rounds
    /\ generations >= 1 => (Rounds = generations - 1 /\ res.generations = generations)
    /\ generations = -1 =>
         /\ Rounds >= 1
         /\ Cardinality(GenerationMembers(Rounds)) = 1
         /\ \A g \in 0..(Rounds - 1) : Cardinality(GenerationMembers(g)) > 1

\* C23: without cancellation, a sampler called with M > 1 and a fixed G >= 1
\* returns after exactly G - 1 rounds of father sampling, whatever is drawn, with
\* generations == G; in sentinel mode it returns after the first round in which all
\* remaining children draw the same father slot, with generations equal to one
\* plus the number of rounds run; and under fair draws every sampler that has
\* entered its loop eventually returns.
C23_Terminates ==
  /\ []C23_RoundsAndGenerations
  /\ (pc = "loop") ~> (pc = "returned")

\* a sentinel run that returned after a round that did not end the loop
C23_Witness ==
  /\ generations = -1
  /\ res.kind = "list"
  /\ res.generations >= MaxG

NonNullSlots == {i \in DOMAIN children_generation : children_generation[i] # NULL}

\* C24 as stated: in both samplers every one of the M slots of the children
\* generation holds an Individual at the start of every generation step, so the
\* null-child skip of the father-picking loop is never taken.
C24_NoNullSlot ==
  (pc = "loop" /\ LoopCondition(generations, generation, founders_left)) =>
    NonNullSlots = 1..population_size

\* C24 amended: at the start of the first generation step all M slots hold an
\* Individual; at the start of a later step the slots hold the fathers created in
\* the step before, each in the slot that was drawn for it, and every slot that no
\* child drew is null: founders_left slots are non-null, they hold different
\* Individuals of the newest generation, all without a father, and the other
\* M - founders_left slots are null and skipped.
C24_NullSlotsAreUndrawn ==
  pc = "loop" =>
    /\ generation = 1 => NonNullSlots = 1..population_size
    /\ Cardinality(NonNullSlots) = founders_left
    /\ founders_left >= 1
    /\ \A i \in NonNullSlots :
         /\ children_generation[i] \in Pop
         /\ population_map[children_generation[i]].generation = generation - 1
         /\ Father(children_generation[i]) = NULL
         /\ \A j \in NonNullSlots : children_generation[i] = children_generation[j] => i = j
    /\ {children_generation[i] : i \in NonNullSlots} = GenerationMembers(generation - 1)

\* a generation step is about to start with a null slot
C24_Witness ==
  /\ pc = "loop"
  /\ LoopCondition(generations, generation, founders_left)
  /\ generation < MaxG
  /\ NonNullSlots # 1..population_size

\* both Individuals of the call have a pedigree, and the same one
SamePedigree ==
  /\ last.dest # NULL
  /\ pedigree_is_set(population_map, last.this)
  /\ pedigree_is_set(population_map, last.dest)
  /\ population_map[last.this].pedigree_id = population_map[last.dest].pedigree_id

\* the ancestors-or-self that a and b share, and the deepest of them
CommonAncestors(a, b) == {c \in Pop : StepsUp(a, c, 0) >= 0 /\ StepsUp(b, c, 0) >= 0}
LowestCommonAncestor(a, b) ==
  CHOOSE c \in CommonAncestors(a, b) :
    \A d \in CommonAncestors(a, b) : StepsUp(a, c, 0) <= StepsUp(a, d, 0)

\* C25: for a and b in the same pedigree calculate_path_to(a, b) returns the lowest
\* common ancestor of a and b first, then, top-down, the Individuals strictly below
\* it on the branch to a, then, top-down, those strictly below it on the branch to
\* b; every Individual of the tree path between a and b occurs exactly once, the
\* length is meiosis_dist_tree(a, b) + 1, and no error is raised, in particular not
\* 'LCA_index cannot be 0'.
C25_PathThroughLCA ==
  (IsPathCall /\ SamePedigree) =>
    LET a == last.this
        b == last.dest
        lca == LowestCommonAncestor(a, b)
        ka == StepsUp(a, lca, 0)
        kb == StepsUp(b, lca, 0)
        p == last.path
    IN /\ last.outcome = "value"
       /\ CommonAncestors(a, b) # {}
       /\ Len(p) = 1 + ka + kb
       /\ p[1] = lca
       /\ \A i \in 1..ka : StepsUp(a, p[1 + i], 0) = ka - i
       /\ \A i \in 1..kb : StepsUp(b, p[1 + ka + i], 0) = kb - i
       /\ Cardinality(Range(p)) = Len(p)
       /\ Len(p) = TreeDist(a, b) + 1
       /\ Len(p) = meiosis_dist_tree(pedigrees, population_map, a, b).value + 1

\* a path between two Individuals on different branches below an Individual that
\* is not the root of the pedigree
C25_Witness ==
  /\ IsPathCall /\ SamePedigree
  /\ last.outcome = "value"
  /\ StepsUp(last.this, LowestCommonAncestor(last.this, last.dest), 0) >= 1
  /\ StepsUp(last.dest, LowestCommonAncestor(last.this, last.dest), 0) >= 1
  /\ Father(LowestCommonAncestor(last.this, last.dest)) # NULL

IsWeightedCall == last.kind = "sample_person_weighted"

\* C26: for every permutation of the M slots, every non-decreasing cumulative
\* vector of length M that ends at one and every draw u in [0,1),
\* sample_person_weighted returns the slot the permutation holds at the smallest
\* index j with cumsum[j] >= u, and that slot is in 0..M-1.
C26_SmallestIndexReached ==
  IsWeightedCall =>
    LET reached == {j \in 1..last.population_size : last.fathers_prob_cum[j] >= last.rU}
    IN /\ reached # {}
       /\ last.value = last.fathers_perm[Min(reached)]
       /\ last.value \in 0..(last.population_size - 1)

\* a call in which the scan passes every index but the last and the permutation
\* holds another slot there
C26_Witness ==
  /\ IsWeightedCall
  /\ last.population_size = MaxSlots
  /\ last.fathers_prob_cum[MaxSlots - 1] < last.rU
  /\ last.value # MaxSlots - 1

IsTable(t, rows, columns) ==
  /\ DOMAIN t = 1..columns
  /\ \A g \in 1..columns : DOMAIN t[g] = 1..rows

\* C27: with verbose output requested the three tables individual_pids, father_pids
\* and father_indices have M rows and as many columns as the returned generations
\* value, in sentinel mode as well; in every column g before the last and every
\* slot i, father_pids(i, g) and father_indices(i, g) are missing exactly when
\* individual_pids(i, g) is missing, and otherwise father_indices(i, g) = s lies
\* in 1..M and father_pids(i, g) is individual_pids(s, g + 1), the pid of the
\* father of the Individual in slot i; the last column of both father tables is
\* entirely missing.
C27_VerboseTables ==
  (res.kind = "list" /\ verbose.on) =>
    LET M == population_size
        W == res.generations
        individual_pids == verbose.individual_pids
        father_pids == verbose.father_pids
        father_indices == verbose.father_indices
    IN /\ IsTable(individual_pids, M, W)
       /\ IsTable(father_pids, M, W)
       /\ IsTable(father_indices, M, W)
       /\ \A g \in 1..(W - 1) : \A i \in 1..M :
            /\ father_pids[g][i] = NA_INTEGER <=> individual_pids[g][i] = NA_INTEGER
            /\ father_indices[g][i] = NA_INTEGER <=> individual_pids[g][i] = NA_INTEGER
            /\ individual_pids[g][i] # NA_INTEGER =>
                 /\ father_indices[g][i] \in 1..M
                 /\ father_pids[g][i] = individual_pids[g + 1][father_indices[g][i]]
                 /\ father_pids[g][i] = Father(individual_pids[g][i])
       /\ \A i \in 1..M : father_pids[W][i] = NA_INTEGER /\ father_indices[W][i] = NA_INTEGER
       /\ \A g \in 1..W :
            {individual_pids[g][i] : i \in 1..M} \ {NA_INTEGER} = GenerationMembers(g - 1)

\* a sentinel-mode run with tables that went through a round with two fathers
C27_Witness ==
  /\ res.kind = "list" /\ verbose.on
  /\ generations = -1
  /\ res.generations = MaxG

IsPassCall == last.kind = "pass_haplotype_to_children"
Descendants(x) == {d \in Pop : StepsUp(d, x, 0) >= 1}
HaplotypeOf(x) == population_map[x].m_haplotype

\* the haplotype fields of x are as they were when the pass was called
HaplotypeUntouched(x) ==
  /\ population_map[x].m_haplotype = last.before[x].m_haplotype
  /\ population_map[x].m_haplotype_set = last.before[x].m_haplotype_set
  /\ population_map[x].m_haplotype_mutated = last.before[x].m_haplotype_mutated

\* C28: a recursive pass_haplotype_to_children call on a founder whose haplotype is
\* set, once it has returned, has given every descendant its turn exactly once
\* (one assignment, one mutation) and has left every descendant with a set
\* haplotype that differs from its father's by at most 1 at every locus and equals
\* it at the loci whose mutation rate is 0; the founder's own haplotype and the
\* haplotypes of the Individuals that do not descend from it are unchanged. A call
\* throws only when the number of mutation rates is not the number of loci.
C28_PassReachesDescendantsOnce ==
  /\ (IsPassCall /\ last.recursive /\ pc = "populated") =>
       /\ last.outcome = "ok"
       /\ Range(last.visited) = Descendants(last.this)
       /\ Len(last.visited) = Cardinality(Descendants(last.this))
       /\ \A d \in Descendants(last.this) :
            /\ population_map[d].m_haplotype_set
            /\ DOMAIN HaplotypeOf(d) = DOMAIN HaplotypeOf(Father(d))
            /\ \A l \in DOMAIN HaplotypeOf(d) :
                 /\ HaplotypeOf(d)[l] - HaplotypeOf(Father(d))[l] \in {-1, 0, 1}
                 /\ last.mutation_rates[l] = 0 => HaplotypeOf(d)[l] = HaplotypeOf(Father(d))[l]
       /\ HaplotypeOf(last.this) = last.h
       /\ \A x \in Pop \ Descendants(last.this) : HaplotypeUntouched(x)
       /\ Links(population_map) = Links(last.before)
  /\ (IsPassCall /\ pc = "pass_failed") =>
       /\ Len(last.h) # Len(last.mutation_rates)
       /\ \A x \in Pop \ Descendants(last.this) : HaplotypeUntouched(x)
  /\ (IsPassCall /\ pc = "populated" /\ population_map[last.this].children # <<>>) =>
       Len(last.h) = Len(last.mutation_rates)

\* a pass that went down two generations and changed an allele on the way, from a
\* founder that is not the only one
C28_Witness ==
  /\ IsPassCall /\ last.recursive /\ pc = "populated"
  /\ \E d \in Descendants(last.this) :
       /\ StepsUp(d, last.this, 0) = MaxG - 1
       /\ HaplotypeOf(d) # HaplotypeOf(Father(d))
  /\ Pop \ (Descendants(last.this) \cup {last.this}) # {}

IsLadderPassCall == last.kind = "pass_haplotype_to_children_ladder_bounded"
LadderErrors == {"Haplotype locus lower than ladder minimum",
                 "Haplotype locus higher than ladder minimum"}

\* the ladder of the pass has more than one value at every locus and holds the
\* founder's haplotype
ProperLadder ==
  \A l \in DOMAIN last.h :
    /\ last.ladder_min[l] < last.ladder_max[l]
    /\ last.ladder_min[l] <= last.h[l] /\ last.h[l] <= last.ladder_max[l]

WithinLadder(x) ==
  \A l \in DOMAIN HaplotypeOf(x) :
    last.ladder_min[l] <= HaplotypeOf(x)[l] /\ HaplotypeOf(x)[l] <= last.ladder_max[l]

\* C29: when ladder_min[l] < ladder_max[l] at every locus and the founder's
\* haplotype lies within the ladder at every locus, a recursive
\* pass_haplotype_to_children_ladder_bounded raises no ladder error at any point,
\* and every descendant that has been given a haplotype has all its alleles
\* within the ladder, whatever the mutation rates and the draws.
C29_LadderKept ==
  (IsLadderPassCall /\ last.recursive /\ ProperLadder) =>
    /\ last.what \notin LadderErrors
    /\ \A d \in Descendants(last.this) :
         population_map[d].m_haplotype_set => WithinLadder(d)
    /\ (pc = "populated" /\ Len(last.h) = Len(last.mutation_rates)) =>
         /\ last.outcome = "ok"
         /\ \A d \in Descendants(last.this) : population_map[d].m_haplotype_set

\* a finished pass along a ladder in which a grandchild stands on the other end
\* of the ladder than the founder
C29_Witness ==
  /\ IsLadderPassCall /\ last.recursive /\ ProperLadder
  /\ pc = "populated"
  /\ \E d \in Descendants(last.this) :
       /\ StepsUp(d, last.this, 0) = MaxG - 1
       /\ \E l \in DOMAIN last.h :
            /\ last.h[l] = last.ladder_min[l]
            /\ HaplotypeOf(d)[l] = last.ladder_max[l]

\* a generation step of a sampler has just run, cancelled or not
GenerationStepTaken == pc = "loop" /\ Cardinality(DOMAIN population_map') > Cardinality(Pop)

C30_FathersOfAStep ==
  GenerationStepTaken =>
    LET new_fathers == Cardinality(DOMAIN population_map') - Cardinality(Pop)
    IN /\ new_fathers >= 1
       /\ new_fathers <= Cardinality(GenerationMembers(generation - 1))
       /\ new_fathers <= founders_left
       /\ pc' = "loop" =>
            /\ founders_left' = new_fathers
            /\ founders_left' <= founders_left
            /\ founders_left' <= population_size

C30_ChildrenAndPids ==
  /\ InSampler => (founders_left >= 1 /\ founders_left <= population_size)
  /\ \A x \in Pop :
       /\ population_map[x].generation >= 1 => population_map[x].children # <<>>
       /\ Father(x) # NULL => Father(x) > x

\* C30: in both samplers the number of fathers allocated in a generation step is at
\* least 1 and at most the number of Individuals of the previous generation, so
\* founders_left never increases from one generation to the next and never
\* exceeds M; every Individual of a generation g >= 1 has at least one child, and
\* every father has a strictly larger pid than each of its children.
C30_FoundersShrink == []C30_ChildrenAndPids /\ [][C30_FathersOfAStep]_vars

\* the weighted sampler after a second step that left fewer founders than the first
C30_Witness ==
  /\ fn = "sample_geneology_variance"
  /\ pc = "loop"
  /\ generation = MaxG
  /\ founders_left < Cardinality(GenerationMembers(1))

====
